---- MODULE Spec2Model ----
(***************************************************************************)
(* dejank: sourcemap restoration (internal/sourcemap/restore.go).          *)
(*                                                                         *)
(* Go strings are TLA+ strings; a character is a string of length one.     *)
(* The restore loop RestoreSourcesWithOptions is a state machine over the  *)
(* loop index, the RestoreResult accumulator and the file system below     *)
(* outputDir; sanitizePath and its helpers are operators computed the way  *)
(* the code computes them.                                                 *)
(***************************************************************************)
EXTENDS Integers, Sequences, FiniteSets, TLC

VARIABLES
    sm,         \* the SourceMap handed to RestoreSourcesWithOptions
    opts,       \* *RestoreOptions: [isNil, Fetcher, BaseURL]
    pc,         \* RestoreSourcesWithOptions is in its loop ("loop") or has returned
    i,          \* loop index of `for i, source := range sm.Sources`
    result,     \* RestoreResult being accumulated
    disk,       \* the file system: [files: path -> bytes, dirs: set of paths]
    calls,      \* URLs passed to opts.Fetcher.GetBytes so far
    ioFault,    \* what the file system did to the last entry's write, if it had one
    sanIn,      \* argument of a stand-alone sanitizePath call
    sanOut,     \* its return value
    sanPc,      \* position of that call
    script,     \* a script handed to the sourcemap reference functions
    mappingURL, \* what ExtractSourceMappingURL returned for it
    inlineMap,  \* what ExtractInlineSourceMap returned: [isNil, sm, err]
    hasInline,  \* what HasInlineSourceMap returned
    scriptDone, \* which of the three have been called
    walk,       \* what filepath.WalkDir hands to its callback: [path, kind]
    wi,         \* how many of them it has handed over
    wResult,    \* the ExtractResult being accumulated
    wReturns,   \* what ExtractFromFile returned, file by file
    wPc,        \* which walk is running
    run         \* a run of RunLocal or RunURL: its position, its lists, its result

vars == <<sm, opts, pc, i, result, disk, calls, ioFault, sanIn, sanOut, sanPc,
          script, mappingURL, inlineMap, hasInline, scriptDone,
          walk, wi, wResult, wReturns, wPc, run>>

restoreVars == <<sm, opts, pc, i, result, ioFault>>
sanVars == <<sanIn, sanOut, sanPc>>
scriptVars == <<script, mappingURL, inlineMap, hasInline, scriptDone>>
walkVars == <<walk, wi, wResult, wReturns, wPc>>

----------------------------------------------------------------------------
(* Bounds of the model.                                                    *)

\* longest string over Alphabet handed to sanitizePath on its own
MaxLen == 4
\* longest sm.Sources / sm.SourcesContent array
MaxSources == 2
\* most lines of code between the first and the last line of a script
MaxFill == 9
\* most files in a directory that is walked
MaxFiles == 2

----------------------------------------------------------------------------
(* package strings                                                         *)

Char(s, n) == SubSeq(s, n, n)

HasPrefix(s, prefix) ==
    Len(s) >= Len(prefix) /\ SubSeq(s, 1, Len(prefix)) = prefix

TrimPrefix(s, prefix) ==
    IF HasPrefix(s, prefix) THEN SubSeq(s, Len(prefix) + 1, Len(s)) ELSE s

Least(S) == CHOOSE m \in S : \A k \in S : m <= k
Greatest(S) == CHOOSE m \in S : \A k \in S : m >= k

\* strings.IndexAny from position n on: the first position at or after n whose
\* character is in chars, 0 when there is none
IndexAny(s, chars, n) ==
    LET hits == {m \in n..Len(s) : Char(s, m) \in chars}
    IN  IF hits = {} THEN 0 ELSE Least(hits)

\* the pieces of s between the characters of seps, from position n on
RECURSIVE SplitFrom(_, _, _)
SplitFrom(s, seps, n) ==
    LET m == IndexAny(s, seps, n)
    IN  IF m = 0 THEN <<SubSeq(s, n, Len(s))>>
        ELSE <<SubSeq(s, n, m - 1)>> \o SplitFrom(s, seps, m + 1)

\* strings.Split(s, sep) for a one-character sep: Split("", sep) = <<"">>
Split(s, sep) == SplitFrom(s, {sep}, 1)

\* strings.Join(elems, sep)
RECURSIVE JoinStrings(_, _)
JoinStrings(elems, sep) ==
    IF Len(elems) = 0 THEN ""
    ELSE IF Len(elems) = 1 THEN elems[1]
    ELSE elems[1] \o sep \o JoinStrings(Tail(elems), sep)

\* s from position n on, with every character of olds replaced by new
RECURSIVE ReplaceFrom(_, _, _, _)
ReplaceFrom(s, olds, new, n) ==
    LET m == IndexAny(s, olds, n)
    IN  IF m = 0 THEN SubSeq(s, n, Len(s))
        ELSE SubSeq(s, n, m - 1) \o new \o ReplaceFrom(s, olds, new, m + 1)

\* strings.ReplaceAll(s, old, new) for a one-character old
ReplaceAll(s, old, new) == ReplaceFrom(s, {old}, new, 1)

\* the last position at or before n whose character is not in cutset, else 0
RECURSIVE LastOutside(_, _, _)
LastOutside(s, cutset, n) ==
    IF n < 1 THEN 0
    ELSE IF Char(s, n) \in cutset THEN LastOutside(s, cutset, n - 1) ELSE n

\* the first position at or after n whose character is not in cutset, else Len(s) + 1
RECURSIVE FirstOutside(_, _, _)
FirstOutside(s, cutset, n) ==
    IF n > Len(s) THEN Len(s) + 1
    ELSE IF Char(s, n) \in cutset THEN FirstOutside(s, cutset, n + 1) ELSE n

\* strings.TrimRight(s, cutset) for a one-character cutset
TrimRight(s, c) == SubSeq(s, 1, LastOutside(s, {c}, Len(s)))

\* unicode.IsSpace on the characters the model uses
WhiteSpace == {" ", "\t", "\n", "\r", "\f"}

\* strings.TrimSpace
TrimSpace(s) ==
    SubSeq(s, FirstOutside(s, WhiteSpace, 1), LastOutside(s, WhiteSpace, Len(s)))

\* unicode.ToLower on the letters A..Z
LowerOf(c) ==
    LET n == IndexAny("ABCDEFGHIJKLMNOPQRSTUVWXYZ", {c}, 1)
    IN  IF n = 0 THEN c ELSE Char("abcdefghijklmnopqrstuvwxyz", n)

RECURSIVE ToLower(_)
ToLower(s) == IF Len(s) = 0 THEN "" ELSE LowerOf(Char(s, 1)) \o ToLower(Tail(s))

\* strings.Repeat(s, n)
RECURSIVE Repeat(_, _)
Repeat(s, n) ==
    IF n = 0 THEN ""
    ELSE IF n % 2 = 0 THEN Repeat(s \o s, n \div 2)
    ELSE s \o Repeat(s \o s, n \div 2)

----------------------------------------------------------------------------
(* package path/filepath                                                   *)

\* filepath.Separator of the unix build
Separator == "/"

\* os.IsPathSeparator
PathSeparators == {Separator}

\* filepath.FromSlash
FromSlash(path) == IF Separator = "/" THEN path ELSE ReplaceAll(path, "/", Separator)

\* The lexical processing of filepath.Clean on the elements of a path:
\* empty and "." elements vanish, ".." removes the element before it, is
\* dropped at the root, and is kept at the front of a relative path.
RECURSIVE CleanElems(_, _, _)
CleanElems(elems, rooted, out) ==
    IF Len(elems) = 0 THEN out
    ELSE LET e == Head(elems)
             rest == Tail(elems)
         IN  IF e = "" \/ e = "." THEN CleanElems(rest, rooted, out)
             ELSE IF e = ".."
                  THEN IF Len(out) > 0 /\ out[Len(out)] # ".."
                       THEN CleanElems(rest, rooted, SubSeq(out, 1, Len(out) - 1))
                       ELSE IF rooted THEN CleanElems(rest, rooted, out)
                       ELSE CleanElems(rest, rooted, Append(out, e))
                  ELSE CleanElems(rest, rooted, Append(out, e))

IsRooted(path) == Len(path) > 0 /\ Char(path, 1) \in PathSeparators

\* the elements of a path, split at every path separator
Elems(path) == SplitFrom(path, PathSeparators, 1)

\* filepath.Clean (paths without a volume name)
Clean(path) ==
    LET rooted == IsRooted(path)
        kept == CleanElems(Elems(path), rooted, <<>>)
        body == JoinStrings(kept, Separator)
    IN  IF rooted THEN Separator \o body
        ELSE IF body = "" THEN "." ELSE body

\* the non-empty members of elems, in order
RECURSIVE NonEmpty(_)
NonEmpty(elems) ==
    IF Len(elems) = 0 THEN <<>>
    ELSE (IF Head(elems) = "" THEN <<>> ELSE <<Head(elems)>>) \o NonEmpty(Tail(elems))

\* filepath.Join
Join(elems) ==
    IF Len(NonEmpty(elems)) = 0 THEN ""
    ELSE Clean(JoinStrings(NonEmpty(elems), Separator))

\* filepath.Dir
Dir(path) ==
    LET es == Elems(path)
    IN  Clean(JoinStrings(SubSeq(es, 1, Len(es) - 1), Separator)
              \o (IF IsRooted(path) /\ Len(es) = 2 THEN Separator ELSE ""))

\* filepath.Ext: from the last dot of the last element, "" when it has none
Ext(path) ==
    LET marks == {m \in 1..Len(path) : Char(path, m) \in PathSeparators \cup {"."}}
    IN  IF marks = {} \/ Char(path, Greatest(marks)) # "." THEN ""
        ELSE SubSeq(path, Greatest(marks), Len(path))

----------------------------------------------------------------------------
(* restore.go: path sanitisation                                           *)

\* the length above which a sanitized path is replaced by its fallback name
MaxPathLen == 255

\* stands for a byte sequence that is not valid UTF-8
InvalidByte == "~"

\* the control characters \x00-\x1F the model uses
ControlChars == {"\t", "\n", "\r", "\f"}

\* illegalCharsRe: [<>:"|?*\x00-\x1F]
IllegalChars == {"<", ">", ":", "\"", "|", "?", "*"} \cup ControlChars

\* utf8.ValidString
ValidString(s) == \A n \in 1..Len(s) : Char(s, n) # InvalidByte

\* illegalCharsRe.ReplaceAllString(segment, "")
RemoveIllegal(s) == ReplaceFrom(s, IllegalChars, "", 1)

\* a slip that drops one leading dot only: if instead of for
CollapseOneDot(clean) ==
    IF Len(clean) > 1 /\ Char(clean, 1) = "." /\ Char(clean, 2) = "."
    THEN Tail(clean)
    ELSE clean

\* for len(clean) > 1 && clean[0] == '.' && clean[1] == '.' { clean = clean[1:] }
RECURSIVE CollapseLeadingDots(_)
CollapseLeadingDots(clean) ==
    IF Len(clean) > 1 /\ Char(clean, 1) = "." /\ Char(clean, 2) = "."
    THEN CollapseLeadingDots(Tail(clean))
    ELSE clean

\* a slip that forgets to strip trailing dots: "." and ".." survive
sanitizePathSegmentKeepDots(segment) ==
    IF ~ValidString(segment) THEN ""
    ELSE ReplaceAll(RemoveIllegal(segment), " ", "_")

sanitizePathSegment(segment) ==
    IF ~ValidString(segment) THEN ""
    ELSE CollapseLeadingDots(
             TrimRight(ReplaceAll(RemoveIllegal(segment), " ", "_"), "."))

\* for strings.HasPrefix(path, "./") { path = strings.TrimPrefix(path, "./") }
RECURSIVE StripDotSlash(_)
StripDotSlash(path) ==
    IF HasPrefix(path, "./") THEN StripDotSlash(TrimPrefix(path, "./")) ELSE path

\* a slip that hands the raw segments to filepath.Join, which resolves ".."
SanitizePartsRaw(parts) == parts

\* the loop appending every non-empty sanitized segment
RECURSIVE SanitizeParts(_)
SanitizeParts(parts) ==
    IF Len(parts) = 0 THEN <<>>
    ELSE LET clean == sanitizePathSegment(Head(parts))
         IN  (IF clean # "" THEN <<clean>> ELSE <<>>) \o SanitizeParts(Tail(parts))

sanitizePath(source) ==
    LET path == FromSlash(StripDotSlash(TrimPrefix(source, "webpack://")))
        sanitized == SanitizeParts(Split(path, Separator))
    IN  IF Len(sanitized) = 0 THEN "" ELSE Join(sanitized)

----------------------------------------------------------------------------
(* restore.go: loader-stub detection                                       *)

mediaExtensions ==
    {".svg", ".png", ".jpg", ".jpeg", ".gif", ".webp", ".ico", ".bmp",
     ".woff", ".woff2", ".ttf", ".eot", ".otf", ".mp3", ".wav", ".ogg",
     ".mp4", ".webm"}

\* mediaExtensions[strings.ToLower(filepath.Ext(path))]
isMediaExtension(path) == ToLower(Ext(path)) \in mediaExtensions

jsStarters ==
    {"import ", "import{", "import(", "export ", "export{", "module.exports",
     "var ", "let ", "const ", "function ", "function(", "//", "/*",
     "\"use strict\"", "'use strict'"}

\* a slip that looks for the starters without trimming white space
isJavaScriptContentUntrimmed(content) ==
    \E starter \in jsStarters : HasPrefix(content, starter)

isJavaScriptContent(content) ==
    LET trimmed == TrimSpace(content)
    IN  IF Len(trimmed) = 0 THEN FALSE
        ELSE \E starter \in jsStarters : HasPrefix(trimmed, starter)

\* position after the literal lit at position n of s, 0 when it is not there
After(s, n, lit) ==
    IF n > 0 /\ n + Len(lit) - 1 <= Len(s) /\ SubSeq(s, n, n + Len(lit) - 1) = lit
    THEN n + Len(lit) ELSE 0

\* position after the longest run of white space starting at n (\s*)
RECURSIVE SkipSpace(_, _)
SkipSpace(s, n) ==
    IF n > 0 /\ n <= Len(s) /\ Char(s, n) \in WhiteSpace THEN SkipSpace(s, n + 1) ELSE n

\* \s+ : as SkipSpace, 0 when no white space is at n
SkipSpace1(s, n) == IF n > 0 /\ SkipSpace(s, n) > n THEN SkipSpace(s, n) ELSE 0

\* position of the first '"' at or after n, 0 when there is none
NextQuote(s, n) == IF n < 1 THEN 0 ELSE IndexAny(s, {"\""}, n)

\* webpackAssetExportRe anchored at position n: the captured group, "" for no match
\*   (?:export\s+default|module\.exports\s*=)\s+
\*   (?:__webpack_public_path__\s*\+\s*)?"([^"]+)"
AssetExportAt(s, n) ==
    LET exp == After(s, SkipSpace1(s, After(s, n, "export")), "default")
        modx == After(s, SkipSpace(s, After(s, n, "module.exports")), "=")
        head == IF exp > 0 THEN exp ELSE modx
        sp == SkipSpace1(s, head)
        plus == After(s, SkipSpace(s, After(s, sp, "__webpack_public_path__")), "+")
        pub == IF plus > 0 THEN SkipSpace(s, plus) ELSE 0
        Quoted(q) ==
            LET open == After(s, q, "\"")
                close == NextQuote(s, open)
            IN  IF open > 0 /\ close > open THEN SubSeq(s, open, close - 1) ELSE ""
    IN  IF sp = 0 THEN ""
        ELSE IF pub > 0 /\ Quoted(pub) # "" THEN Quoted(pub)
        ELSE Quoted(sp)

\* FindStringSubmatch: the leftmost match
RECURSIVE AssetExportFrom(_, _)
AssetExportFrom(s, n) ==
    IF n > Len(s) THEN ""
    ELSE IF AssetExportAt(s, n) # "" THEN AssetExportAt(s, n)
    ELSE AssetExportFrom(s, n + 1)

extractWebpackAssetURL(content) == AssetExportFrom(content, 1)

\* url.Parse as far as resolveAssetURL reads it: the scheme and the host, or
\* an error for a URL whose first character is the colon
ParseURL(rawURL) ==
    LET colon == IndexAny(rawURL, {":"}, 1)
        rest == IF After(rawURL, colon, "://") > 0
                THEN SubSeq(rawURL, colon + 3, Len(rawURL)) ELSE ""
        slash == IndexAny(rest, {"/"}, 1)
    IN  IF colon = 1 THEN [err |-> TRUE, Scheme |-> "", Host |-> ""]
        ELSE IF colon = 0 THEN [err |-> FALSE, Scheme |-> "", Host |-> ""]
        ELSE [err |-> FALSE,
              Scheme |-> SubSeq(rawURL, 1, colon - 1),
              Host |-> IF slash = 0 THEN rest ELSE SubSeq(rest, 1, slash - 1)]

\* (*url.URL).EscapedPath for a URL built from its fields: of the characters
\* the model uses, the per cent sign, the space, the question mark and the
\* hash are written as escapes
EscapedPath(path) ==
    ReplaceAll(ReplaceAll(ReplaceAll(ReplaceAll(path, "%", "%25"), " ", "%20"),
                          "?", "%3F"), "#", "%23")

\* (*url.URL).String for a URL of a scheme, a host and a path
URLString(u) ==
    (IF u.Scheme # "" THEN u.Scheme \o ":" ELSE "")
        \o (IF u.Scheme # "" \/ u.Host # "" THEN "//" \o u.Host ELSE "")
        \o EscapedPath(u.Path)

resolveAssetURL(baseURL, assetPath) ==
    LET base == ParseURL(baseURL)
        resolved == [Scheme |-> base.Scheme, Host |-> base.Host,
                     Path |-> "/" \o TrimPrefix(assetPath, "/")]
    IN  IF base.err THEN [err |-> TRUE, url |-> ""]
        ELSE [err |-> FALSE, url |-> URLString(resolved)]

----------------------------------------------------------------------------
(* format.Format and the file system                                       *)

isJSFile(ext) ==
    ToLower(ext) \in {".js", ".mjs", ".cjs", ".jsx", ".ts", ".mts", ".cts", ".tsx"}

\* jsbeautifier.Beautify on the contents the model uses: minified text is
\* re-spaced, text that is already laid out comes back as it is
Beautify(content) ==
    IF TrimSpace(content) = "var a=1" THEN "var a = 1" ELSE content

Format(content, filename) ==
    IF ~isJSFile(Ext(filename)) THEN content ELSE Beautify(content)

\* what the environment does to one attempt to write a file
Faults == {"none", "mkdir", "short"}

\* the directory dir and every directory above it
RECURSIVE Ancestors(_)
Ancestors(dir) ==
    IF dir = "." \/ dir = "" \/ dir = Separator THEN {}
    ELSE {dir} \cup Ancestors(Dir(dir))

\* os.MkdirAll: fails when the environment refuses or a path element is a file
MkdirAll(d, dir, fault) ==
    IF fault = "mkdir" \/ \E a \in Ancestors(dir) : a \in DOMAIN d.files
    THEN [err |-> TRUE, disk |-> d]
    ELSE [err |-> FALSE, disk |-> [d EXCEPT !.dirs = @ \cup Ancestors(dir)]]

\* a slip that opens the file with O_EXCL semantics turned into a no-op:
\* a file that exists keeps what it holds
PutIfAbsent(files, path, data) ==
    [p \in DOMAIN files \cup {path} |-> IF p \in DOMAIN files THEN files[p] ELSE data]

Put(files, path, data) ==
    [p \in DOMAIN files \cup {path} |-> IF p = path THEN data ELSE files[p]]

\* os.WriteFile: creates or truncates the file, then writes; it fails when the
\* path is a directory (nothing changes) or when the write stops short (the
\* file is left truncated)
WriteFile(d, path, data, fault) ==
    IF path \in d.dirs
    THEN [err |-> TRUE, disk |-> d]
    ELSE IF fault = "short"
    THEN [err |-> TRUE, disk |-> [d EXCEPT !.files = Put(@, path, "")]]
    ELSE [err |-> FALSE, disk |-> [d EXCEPT !.files = Put(@, path, data)]]

writeFile(d, path, content, fault) ==
    LET made == MkdirAll(d, Dir(path), fault)
    IN  IF made.err THEN made
        ELSE WriteFile(made.disk, path, Format(content, path), fault)

----------------------------------------------------------------------------
(* restore.go: RestoreSourcesWithOptions                                   *)

Nil == "nil"

\* the outputDir argument
OutputDir == "restored_sources"

EmptyResult == [RestoredCount |-> 0, SkippedCount |-> 0, AssetsFetched |-> 0,
                Errors |-> <<>>]

EmptyDisk == [files |-> [p \in {} |-> ""], dirs |-> {}]

\* a one-segment path of MaxPathLen + 1 bytes
TooLong == Repeat("a", MaxPathLen + 1)

\* sm.Sources of bundles of scripts: plain, traversing, and with no usable path
TextSources ==
    {"webpack:///./src/App.js",
     "webpack:///./src/../../etc/evil.js",
     "../..",
     TooLong}

\* sm.Sources of bundles with media assets
AssetSources ==
    {"img/a.svg",
     "webpack:///./src/../../etc/evil.js",
     "../.."}

\* sm.Sources that name one file in three ways
CollidingSources == {"webpack:///./src/App.js", "src/App.js", "src//App.js"}

\* paths under which one loader stub can be restored: with a media
\* extension, with one in capitals, and with none
StubSources == {"img/a.svg", "img/a.SVG", "icon"}

SourcePool == TextSources \cup AssetSources \cup CollidingSources \cup StubSources

\* sanitizePath(source) of every source the model draws, computed once
Sanitized == [source \in SourcePool |-> sanitizePath(source)]

\* a slip that reads the contents from the far end of the array
ContentReversed(n) == sm.SourcesContent[Len(sm.SourcesContent) - n]

\* source and content of the entry the loop is at (Go indexes from 0)
Source(n) == sm.Sources[n + 1]
Content(n) == sm.SourcesContent[n + 1]

\* fmt.Sprintf("%d", n) for the indices the model reaches
RECURSIVE Itoa(_)
Itoa(n) ==
    IF n < 10
    THEN SubSeq("0123456789", n + 1, n + 1)
    ELSE Itoa(n \div 10) \o Itoa(n % 10)

\* fmt.Sprintf("source_%d.js", i)
FallbackName(n) == "source_" \o Itoa(n) \o ".js"

\* a slip that forgets the fallback name
VirtualPathNoFallback(n) == Sanitized[Source(n)]

\* virtualPath := sanitizePath(source), replaced by the fallback name when it
\* is empty or longer than MaxPathLen
VirtualPath(n) ==
    LET virtualPath == Sanitized[Source(n)]
    IN  IF virtualPath = "" \/ Len(virtualPath) > MaxPathLen
        THEN FallbackName(n) ELSE virtualPath

\* a slip that joins the source as it came, without sanitizePath
OutPathUnsanitized(n) == Join(<<OutputDir, TrimPrefix(Source(n), "webpack://")>>)

\* outPath := filepath.Join(outputDir, virtualPath)
OutPath(n) == Join(<<OutputDir, VirtualPath(n)>>)

\* isMediaExtension(virtualPath) && isJavaScriptContent(content)
IsStub(virtualPath, content) ==
    isMediaExtension(virtualPath) /\ isJavaScriptContent(content)

\* a slip that forgets to require a base URL
CanFetchAnyBase == ~opts.isNil /\ opts.Fetcher # Nil

\* opts != nil && opts.Fetcher != nil && opts.BaseURL != ""
CanFetch == ~opts.isNil /\ opts.Fetcher # Nil /\ opts.BaseURL # ""

\* the loop has an entry to handle: range sm.Sources, break at len(SourcesContent)
InRange == pc = "loop" /\ i < Len(sm.Sources) /\ i < Len(sm.SourcesContent)

\* what opts.Fetcher.GetBytes can return
FetchedBytes == "<svg>real</svg>"
Responses == {[err |-> TRUE, data |-> ""], [err |-> FALSE, data |-> FetchedBytes]}

\* a slip that asks the fetcher before it has an asset path
tryFetchRealAssetFetchFirst(content, outPath, resp, fault) ==
    [fetched |-> FALSE, disk |-> disk,
     calls |-> Append(calls, resolveAssetURL(opts.BaseURL, "").url), io |-> FALSE]

\* tryFetchRealAsset: [fetched, disk, calls] for a response and a write fault;
\* io tells whether it came to write at all
tryFetchRealAsset(content, outPath, resp, fault) ==
    LET assetPath == extractWebpackAssetURL(content)
        assetURL == resolveAssetURL(opts.BaseURL, assetPath)
        made == MkdirAll(disk, Dir(outPath), fault)
        wrote == WriteFile(made.disk, outPath, resp.data, fault)
    IN  IF assetPath = "" \/ assetURL.err
        THEN [fetched |-> FALSE, disk |-> disk, calls |-> calls, io |-> FALSE]
        ELSE IF resp.err
        THEN [fetched |-> FALSE, disk |-> disk,
              calls |-> Append(calls, assetURL.url), io |-> FALSE]
        ELSE IF made.err
        THEN [fetched |-> FALSE, disk |-> made.disk,
              calls |-> Append(calls, assetURL.url), io |-> TRUE]
        ELSE [fetched |-> ~wrote.err, disk |-> wrote.disk,
              calls |-> Append(calls, assetURL.url), io |-> TRUE]

\* slips in the bookkeeping of RestoreResult
CountSkippedAsRestored(r) == [r EXCEPT !.RestoredCount = @ + 1]
CountFetchedOnly(r) == [r EXCEPT !.AssetsFetched = @ + 1]
RecordLastError(r, source) ==
    [r EXCEPT !.Errors = <<[msg |-> "failed to restore", source |-> source]>>]
CountRestoredTwice(r) == [r EXCEPT !.RestoredCount = @ + 2]
RecordErrorInFront(r, source) ==
    [r EXCEPT !.Errors = <<[msg |-> "failed to restore", source |-> source]>> \o @]

\* result.SkippedCount++
CountSkipped(r) == [r EXCEPT !.SkippedCount = @ + 1]

\* result.RestoredCount++
CountRestored(r) == [r EXCEPT !.RestoredCount = @ + 1]

\* result.AssetsFetched++; result.RestoredCount++
CountFetched(r) == [r EXCEPT !.AssetsFetched = @ + 1, !.RestoredCount = @ + 1]

\* fmt.Errorf("failed to restore %s: %w", source, err)
RestoreError(source) == [msg |-> "failed to restore", source |-> source]

\* result.Errors = append(result.Errors, ...)
RecordError(r, source) == [r EXCEPT !.Errors = Append(@, RestoreError(source))]

\* if len(sm.SourcesContent) == 0 { return result }
ReturnNoContent ==
    /\ pc = "loop"
    /\ i = 0
    /\ Len(sm.SourcesContent) = 0
    /\ pc' = "done"
    /\ UNCHANGED <<sm, opts, i, result, disk, calls, ioFault, sanVars, scriptVars, walkVars, run>>

\* one iteration of the loop over sm.Sources
RestoreEntry ==
    /\ InRange
    /\ LET source == Source(i)
           content == Content(i)
           virtualPath == VirtualPath(i)
           outPath == OutPath(i)
       IN  IF content = ""
           THEN /\ result' = CountSkipped(result)
                /\ ioFault' = "none"
                /\ UNCHANGED <<disk, calls>>
           ELSE IF IsStub(virtualPath, content)
           THEN IF CanFetch
                THEN \E resp \in Responses, fault \in Faults :
                        LET Tried(got) ==
                                /\ disk' = got.disk
                                /\ calls' = got.calls
                                /\ ioFault' = IF got.io THEN fault ELSE "none"
                                /\ result' = IF got.fetched
                                             THEN CountFetched(result)
                                             ELSE CountSkipped(result)
                        IN  Tried(tryFetchRealAsset(content, outPath, resp, fault))
                ELSE /\ result' = CountSkipped(result)
                     /\ ioFault' = "none"
                     /\ UNCHANGED <<disk, calls>>
           ELSE \E fault \in Faults :
                   LET Wrote(wrote) ==
                           /\ disk' = wrote.disk
                           /\ ioFault' = fault
                           /\ result' = IF wrote.err
                                        THEN RecordError(result, source)
                                        ELSE CountRestored(result)
                           /\ UNCHANGED calls
                   IN  Wrote(writeFile(disk, outPath, content, fault))
    /\ i' = i + 1
    /\ UNCHANGED <<sm, opts, pc, sanVars, scriptVars, walkVars, run>>

\* the range is exhausted, or i >= len(sm.SourcesContent) breaks the loop
Return ==
    /\ pc = "loop"
    /\ Len(sm.SourcesContent) # 0
    /\ ~InRange
    /\ pc' = "done"
    /\ UNCHANGED <<sm, opts, i, result, disk, calls, ioFault, sanVars, scriptVars, walkVars, run>>

\* sequences over S of length at most n
SeqsUpTo(S, n) == UNION {[1..m -> S] : m \in 0..n}

StubText == "export default \"static/media/a.svg\""
SvgText == "<svg xmlns=\"http://www.w3.org/2000/svg\"></svg>"

\* sm.SourcesContent of bundles of scripts
TextContents == {"", "console.log(1)", "console.log(2)", " var a=1"}

\* sm.SourcesContent of bundles with media assets: stubs and real text
AssetContents == {StubText, SvgText, " var a=1"}

Fetcher == "fetch.Client"

\* opts == nil, as RestoreSources passes it
NilOpts == [isNil |-> TRUE, Fetcher |-> Nil, BaseURL |-> ""]

OptsPool ==
    {NilOpts}
        \cup [isNil : {FALSE}, Fetcher : {Nil, Fetcher},
              BaseURL : {"https://example.com/app/"}]
        \cup [isNil : {FALSE}, Fetcher : {Fetcher}, BaseURL : {"", ":bad"}]

\* the parts of the program named in active aside, nothing has been called
IdleExcept(active) ==
    /\ IF "restore" \in active THEN TRUE
       ELSE /\ sm = [Sources |-> <<>>, SourcesContent |-> <<>>]
            /\ opts = NilOpts
            /\ pc = "idle"
            /\ i = 0
            /\ result = EmptyResult
            /\ ioFault = "none"
    /\ IF "disk" \in active THEN TRUE
       ELSE /\ disk = EmptyDisk
            /\ calls = <<>>
    /\ IF "walk" \in active THEN TRUE
       ELSE /\ walk = <<>>
            /\ wi = 0
            /\ wResult = [ExtractedCount |-> 0, Errors |-> <<>>]
            /\ wReturns = <<>>
            /\ wPc = "idle"
    /\ IF "sanitize" \in active THEN TRUE
       ELSE /\ sanIn = ""
            /\ sanOut = ""
            /\ sanPc = "idle"
    /\ IF "script" \in active THEN TRUE
       ELSE /\ script = [head |-> "", fill |-> 0, tail |-> "", trailing |-> ""]
            /\ mappingURL = ""
            /\ inlineMap = [isNil |-> TRUE,
                            sm |-> [Sources |-> <<>>, SourcesContent |-> <<>>],
                            err |-> ""]
            /\ hasInline = FALSE
            /\ scriptDone = {}
    /\ IF "run" \in active THEN TRUE
       ELSE run = [mode |-> "idle"]

\* the state at the entry of RestoreSourcesWithOptions(sm, outputDir, opts)
Entry(sources, contents, options) ==
    /\ sm \in [Sources : SeqsUpTo(sources, MaxSources),
               SourcesContent : SeqsUpTo(contents, MaxSources)]
    /\ opts \in options
    /\ pc = "loop"
    /\ i = 0
    /\ result = EmptyResult
    /\ disk = EmptyDisk
    /\ calls = <<>>
    /\ ioFault = "none"
    /\ IdleExcept({"restore", "disk"})

\* RestoreSources on a bundle of scripts
Init == Entry(TextSources, TextContents, {NilOpts})

\* RestoreSourcesWithOptions on a bundle with media assets
AssetInit == Entry(AssetSources, AssetContents, OptsPool)

Next ==
    \/ ReturnNoContent
    \/ RestoreEntry
    \/ Return

Spec == Init /\ [][Next]_vars

SpecAssets == AssetInit /\ [][Next]_vars

\* RestoreSources on a bundle whose sources collide on one path
CollideInit == Entry(CollidingSources, TextContents, {NilOpts})

SpecCollide == CollideInit /\ [][Next]_vars

----------------------------------------------------------------------------
(* Stand-alone calls of sanitizePath, on every short string over Alphabet  *)
(* with and without the webpack:// prefix.                                 *)

Alphabet == {"a", ".", "/", "\\", ":", " ", "\t", InvalidByte}

RECURSIVE StringsUpTo(_)
StringsUpTo(n) ==
    IF n = 0 THEN {""}
    ELSE LET shorter == StringsUpTo(n - 1)
         IN  shorter \cup {s \o c : s \in shorter, c \in Alphabet}

SanInputs ==
    StringsUpTo(MaxLen)
        \cup {"webpack://" \o s : s \in StringsUpTo(MaxLen - 1)}
        \cup {"../../etc/passwd", "/etc/passwd", "a<b>c:d\"e|f?g*h\n",
              "webpack:///./src/../../etc/evil.js"}

SanInit ==
    /\ sanIn \in SanInputs
    /\ sanOut = ""
    /\ sanPc = "call"
    /\ IdleExcept({"sanitize"})

SanitizeCall ==
    /\ sanPc = "call"
    /\ sanOut' = sanitizePath(sanIn)
    /\ sanPc' = "returned"
    /\ UNCHANGED <<sanIn, restoreVars, disk, calls, scriptVars, walkVars, run>>

SanNext == SanitizeCall

SpecSanitize == SanInit /\ [][SanNext]_vars

----------------------------------------------------------------------------
(* encoding/base64 and encoding/json.                                      *)

\* s[n-1] when it is there
CharAt(s, n) == IF n >= 1 /\ n <= Len(s) THEN Char(s, n) ELSE ""

\* string(b) for one byte b; InvalidByte stands for the bytes that are no
\* character of the model
Chr ==
    LET ascii32 == " !\"#$%&'()*+,-./0123456789:;<=>?@ABCDEFGHIJKLMNOPQRSTUVWXYZ[\\]^_"
        ascii97 == "abcdefghijklmnopqrstuvwxyz{|}"
    IN  [b \in 0..255 |->
            CASE b = 9 -> "\t" [] b = 10 -> "\n" [] b = 12 -> "\f" [] b = 13 -> "\r"
              [] b \in 32..95 -> Char(ascii32, b - 31)
              [] b \in 97..125 -> Char(ascii97, b - 96)
              [] OTHER -> InvalidByte]

\* the strings pieces[lo..hi] in one string
RECURSIVE Concat(_, _, _)
Concat(pieces, lo, hi) ==
    IF lo > hi THEN ""
    ELSE IF lo = hi THEN pieces[lo]
    ELSE LET mid == (lo + hi) \div 2
         IN  Concat(pieces, lo, mid) \o Concat(pieces, mid + 1, hi)

\* the value of each digit of base64.StdEncoding
Base64Value ==
    LET alphabet == "ABCDEFGHIJKLMNOPQRSTUVWXYZabcdefghijklmnopqrstuvwxyz0123456789+/"
    IN  [c \in {Char(alphabet, n) : n \in 1..64} |-> IndexAny(alphabet, {c}, 1) - 1]

\* base64.StdEncoding.DecodeString: line ends are skipped; whole groups of
\* four digits, padding only as the last one or two characters of the last
\* group, any other character is corrupt input
DecodeString(str) ==
    LET s == ReplaceFrom(str, {"\r", "\n"}, "", 1)
        n == Len(s)
        pad == IF n >= 2 /\ SubSeq(s, n - 1, n) = "==" THEN 2
               ELSE IF n >= 1 /\ Char(s, n) = "=" THEN 1 ELSE 0
        At(k) == IF k <= n - pad THEN Base64Value[Char(s, k)] ELSE 0
        Group(q) == At(4 * q - 3) * 262144 + At(4 * q - 2) * 4096
                        + At(4 * q - 1) * 64 + At(4 * q)
        Byte(q, j) == (Group(q) \div (256 ^ (2 - j))) % 256
        m == 3 * (n \div 4) - pad
    IN  IF n % 4 # 0 \/ \E k \in 1..(n - pad) : Char(s, k) \notin DOMAIN Base64Value
        THEN [err |-> TRUE, data |-> ""]
        ELSE [err |-> FALSE,
              data |-> Concat([k \in 1..m |-> Chr[Byte((k - 1) \div 3 + 1, (k - 1) % 3)]],
                              1, m)]

\* a JSON value that is not there
NoValue == [ok |-> FALSE, next |-> 0, kind |-> "", str |-> "", keys |-> <<>>, elems |-> <<>>]

JSONSpace == {" ", "\t", "\n", "\r"}

\* the scanner of encoding/json: the value that starts at position n of s
\* and the position after it. JSONString starts after the opening quote;
\* JSONItems is at the first item of an array or object, or at the item
\* after a comma, and reads up to the closing bracket.
RECURSIVE JSONString(_, _, _), JSONValue(_, _), JSONItems(_, _, _, _, _)
JSONString(s, n, acc) ==
    LET c == CharAt(s, n)
        e == CharAt(s, n + 1)
        hex == [k \in 1..4 |->
                    IndexAny("0123456789abcdef", {ToLower(CharAt(s, n + 1 + k))}, 1)]
        code == (hex[1] - 1) * 4096 + (hex[2] - 1) * 256 + (hex[3] - 1) * 16 + hex[4] - 1
    IN  IF n > Len(s) \/ c \in ControlChars THEN NoValue
        ELSE IF c = "\"" THEN [NoValue EXCEPT !.ok = TRUE, !.next = n + 1,
                                               !.kind = "string", !.str = acc]
        ELSE IF c # "\\" THEN JSONString(s, n + 1, acc \o c)
        ELSE IF e \in {"\"", "\\", "/"} THEN JSONString(s, n + 2, acc \o e)
        ELSE IF e = "n" THEN JSONString(s, n + 2, acc \o "\n")
        ELSE IF e = "t" THEN JSONString(s, n + 2, acc \o "\t")
        ELSE IF e = "r" THEN JSONString(s, n + 2, acc \o "\r")
        ELSE IF e = "f" THEN JSONString(s, n + 2, acc \o "\f")
        ELSE IF e = "u" /\ n + 5 <= Len(s) /\ \A k \in 1..4 : hex[k] > 0
             THEN JSONString(s, n + 6, acc \o (IF code < 256 THEN Chr[code] ELSE InvalidByte))
        ELSE NoValue

JSONValue(s, n) ==
    LET c == CharAt(s, n)
        digits == {"0", "1", "2", "3", "4", "5", "6", "7", "8", "9"}
        Literal(lit) ==
            IF After(s, n, lit) > 0
            THEN [NoValue EXCEPT !.ok = TRUE, !.next = n + Len(lit), !.kind = lit]
            ELSE NoValue
        Run(k) == FirstOutside(s, digits, k)
        int == IF c = "-" THEN n + 1 ELSE n
        intEnd == IF CharAt(s, int) = "0" THEN int + 1 ELSE Run(int)
        fracEnd == IF CharAt(s, intEnd) = "." THEN Run(intEnd + 1) ELSE intEnd
        exp == IF CharAt(s, fracEnd) \in {"e", "E"}
               THEN (IF CharAt(s, fracEnd + 1) \in {"+", "-"} THEN fracEnd + 2
                     ELSE fracEnd + 1)
               ELSE 0
        end == IF exp > 0 THEN Run(exp) ELSE fracEnd
        Number ==
            IF intEnd = int \/ fracEnd = intEnd + 1 \/ (exp > 0 /\ end = exp)
            THEN NoValue
            ELSE [NoValue EXCEPT !.ok = TRUE, !.next = end,
                                 !.kind = IF end = intEnd THEN "integer" ELSE "number"]
    IN  IF c = "\"" THEN JSONString(s, n + 1, "")
        ELSE IF c = "[" THEN JSONItems(s, FirstOutside(s, JSONSpace, n + 1), "]", <<>>, <<>>)
        ELSE IF c = "{" THEN JSONItems(s, FirstOutside(s, JSONSpace, n + 1), "}", <<>>, <<>>)
        ELSE IF c = "t" THEN Literal("true")
        ELSE IF c = "f" THEN Literal("false")
        ELSE IF c = "n" THEN Literal("null")
        ELSE IF c = "-" \/ c \in digits THEN Number
        ELSE NoValue

JSONItems(s, n, close, keys, elems) ==
    LET Closed(ks, es, next) ==
            [NoValue EXCEPT !.ok = TRUE, !.next = next, !.keys = ks, !.elems = es,
                            !.kind = IF close = "]" THEN "array" ELSE "object"]
        Item(key, v, m) ==
            IF ~key.ok \/ ~v.ok THEN NoValue
            ELSE IF CharAt(s, m) = ","
                 THEN JSONItems(s, FirstOutside(s, JSONSpace, m + 1), close,
                                Append(keys, key.str), Append(elems, v))
            ELSE IF CharAt(s, m) = close
                 THEN Closed(Append(keys, key.str), Append(elems, v), m + 1)
            ELSE NoValue
        Valued(key, v) == Item(key, v, FirstOutside(s, JSONSpace, v.next))
        From(key, at) == Valued(key, IF at = 0 THEN NoValue ELSE JSONValue(s, at))
        Keyed(key, colon) ==
            From(key, IF close = "]" THEN n
                        ELSE IF CharAt(s, colon) = ":"
                             THEN FirstOutside(s, JSONSpace, colon + 1)
                        ELSE 0)
        At(key) == Keyed(key, FirstOutside(s, JSONSpace, key.next))
    IN  IF elems = <<>> /\ CharAt(s, n) = close THEN Closed(<<>>, <<>>, n + 1)
        ELSE At(IF close = "]" THEN [NoValue EXCEPT !.ok = TRUE, !.next = n]
                ELSE IF CharAt(s, n) = "\"" THEN JSONString(s, n + 1, "")
                ELSE NoValue)

\* the zero SourceMap
ZeroMap == [Sources |-> <<>>, SourcesContent |-> <<>>]

\* json.Unmarshal(data, &sm) for the fields of SourceMap the restore reads:
\* the text must be one JSON value; an object fills the fields its keys
\* name (matched without regard to case, a later key over an earlier one),
\* null leaves the zero value, any other value does not fit the struct
Unmarshal(data) ==
    LET Strings(x) == x.kind = "array" /\ \A k \in 1..Len(x.elems) :
                            x.elems[k].kind \in {"string", "null"}
        Fits(key, x) ==
            CASE x.kind = "null" -> TRUE
              [] key = "version" -> x.kind = "integer"
              [] key \in {"file", "sourceroot", "mappings"} -> x.kind = "string"
              [] key \in {"sources", "sourcescontent", "names"} -> Strings(x)
              [] key = "sections" ->
                    x.kind = "array" /\ \A k \in 1..Len(x.elems) :
                            x.elems[k].kind \in {"object", "null"}
              [] OTHER -> TRUE
        Last(v, name) == {k \in 1..Len(v.keys) :
                            ToLower(v.keys[k]) = name /\ v.elems[k].kind = "array"}
        Texts(x) == [k \in 1..Len(x.elems) |->
                        IF x.elems[k].kind = "string" THEN x.elems[k].str ELSE ""]
        Field(v, name) ==
            IF Last(v, name) = {} THEN <<>>
            ELSE Texts(v.elems[Greatest(Last(v, name))])
        Decoded(v) ==
            IF ~v.ok \/ FirstOutside(data, JSONSpace, v.next) <= Len(data)
            THEN [err |-> TRUE, sm |-> ZeroMap]
            ELSE IF v.kind = "null" THEN [err |-> FALSE, sm |-> ZeroMap]
            ELSE IF v.kind # "object"
                    \/ \E k \in 1..Len(v.keys) : ~Fits(ToLower(v.keys[k]), v.elems[k])
            THEN [err |-> TRUE, sm |-> ZeroMap]
            ELSE [err |-> FALSE,
                  sm |-> [Sources |-> Field(v, "sources"),
                          SourcesContent |-> Field(v, "sourcescontent")]]
    IN  Decoded(JSONValue(data, FirstOutside(data, JSONSpace, 1)))

----------------------------------------------------------------------------
(* Sourcemap references in scripts: Parse, ExtractSourceMappingURL,        *)
(* ExtractInlineSourceMap, HasInlineSourceMap.                             *)

\* the positions of s where the literal lit starts
Indexes(s, lit) ==
    {n \in 1..(Len(s) - Len(lit) + 1) : SubSeq(s, n, n + Len(lit) - 1) = lit}

\* strings.Contains
Contains(s, substr) == Indexes(s, substr) # {}

\* a Parse that rejects a sourcemap without sourcesContent
ParseRequireContent(data) ==
    LET Returned(u) ==
            IF u.err \/ u.sm.SourcesContent = <<>>
            THEN [isNil |-> TRUE, sm |-> ZeroMap, err |-> "failed to parse sourcemap JSON"]
            ELSE [isNil |-> FALSE, sm |-> u.sm, err |-> ""]
    IN  Returned(Unmarshal(data))

Parse(data) ==
    LET Returned(u) ==
            IF u.err
            THEN [isNil |-> TRUE, sm |-> ZeroMap, err |-> "failed to parse sourcemap JSON"]
            ELSE [isNil |-> FALSE, sm |-> u.sm, err |-> ""]
    IN  Returned(Unmarshal(data))

\* sourceMappingURLRe anchored at position n of line: the captured group, ""
\* for no match     //[#@]\s*sourceMappingURL\s*=\s*([^\s]+)
MappingURLAt(line, n) ==
    LET mark == IF After(line, n, "//") > 0 /\ CharAt(line, n + 2) \in {"#", "@"}
                THEN n + 3 ELSE 0
        name == After(line, SkipSpace(line, mark), "sourceMappingURL")
        eq == After(line, SkipSpace(line, name), "=")
        from == SkipSpace(line, eq)
        space == IndexAny(line, WhiteSpace, from)
        to == IF space = 0 THEN Len(line) ELSE space - 1
    IN  IF from = 0 THEN "" ELSE SubSeq(line, from, to)

\* inlineSourceMapRe anchored at position n of line: the captured group, ""
\* for no match
\*   sourceMappingURL\s*=\s*data:application/json[^,]*;base64,([a-zA-Z0-9+/=]+)
InlinePayloadAt(line, n) ==
    LET name == After(line, n, "sourceMappingURL")
        eq == After(line, SkipSpace(line, name), "=")
        json == After(line, SkipSpace(line, eq), "data:application/json")
        comma == IF json = 0 THEN 0 ELSE IndexAny(line, {","}, json)
        from == IF comma - 7 >= json THEN After(line, comma - 7, ";base64,") ELSE 0
        stops == {m \in from..Len(line) : Char(line, m) \notin DOMAIN Base64Value \cup {"="}}
        to == IF stops = {} THEN Len(line) ELSE Least(stops) - 1
    IN  IF from = 0 THEN "" ELSE SubSeq(line, from, to)

\* FindStringSubmatch(line)[1] for an expression that starts with the
\* literal lit: the group of the leftmost match, "" for none
FindSubmatch(At(_, _), line, lit) ==
    LET hits == {n \in Indexes(line, lit) : At(line, n) # ""}
    IN  IF hits = {} THEN "" ELSE At(line, Least(hits))

\* a scan that goes back to the first line of the script
WindowStartOfScript(n) == 0

\* start := len(lines) - 10; if start < 0 { start = 0 }
WindowStart(n) == IF n - 10 < 0 THEN 0 ELSE n - 10

ExtractSourceMappingURL(jsContent) ==
    LET lines == Split(TrimSpace(jsContent), "\n")
        RECURSIVE From(_)
        From(k) ==
            LET url == TrimSpace(FindSubmatch(MappingURLAt, lines[k + 1], "//"))
            IN  IF k < WindowStart(Len(lines)) THEN ""
                ELSE IF url = "" THEN From(k - 1)
                ELSE IF HasPrefix(url, "data:") THEN ""
                ELSE url
    IN  From(Len(lines) - 1)

ExtractInlineSourceMap(jsContent) ==
    LET lines == Split(TrimSpace(jsContent), "\n")
        RECURSIVE From(_)
        From(k) ==
            LET Matched(payload) == IF payload = "" THEN From(k - 1) ELSE payload
            IN  IF k < WindowStart(Len(lines)) THEN ""
                ELSE IF ~Contains(lines[k + 1], "sourceMappingURL=data:application/json")
                THEN From(k - 1)
                ELSE Matched(FindSubmatch(InlinePayloadAt, lines[k + 1], "sourceMappingURL"))
        Decoded(decoded) ==
            IF decoded.err
            THEN [isNil |-> TRUE, sm |-> ZeroMap, err |-> "failed to decode base64 sourcemap"]
            ELSE Parse(decoded.data)
        Found(payload) ==
            IF payload = "" THEN [isNil |-> TRUE, sm |-> ZeroMap, err |-> ""]
            ELSE Decoded(DecodeString(payload))
    IN  Found(From(Len(lines) - 1))

\* a check for the marker of the shortest data: URI only
HasInlineSourceMapPlain(jsContent) ==
    Contains(jsContent, "sourceMappingURL=data:application/json;base64,")

\* a probe that looks at the last line only
HasInlineSourceMapLastLine(jsContent) ==
    LET lines == Split(TrimSpace(jsContent), "\n")
    IN  Contains(lines[Len(lines)], "sourceMappingURL=data:application/json")

\* strings.Contains(jsContent, "sourceMappingURL=data:application/json")
HasInlineSourceMap(jsContent) ==
    Contains(jsContent, "sourceMappingURL=data:application/json")

\* last lines of scripts with an inline sourcemap, as bundlers write them:
\* plain, with a charset, in a block comment with \u escapes in the JSON
\* text, and a sourcemap without sourcesContent
InlineLines ==
    <<"//# sourceMappingURL=data:application/json;base64,eyJ2ZXJzaW9uIjozLCJzb3VyY2VzIjpbImEuanMiXSwic291cmNlc0NvbnRlbnQiOlsieD0xIl0sIm1hcHBpbmdzIjoiQUFBQSJ9",
      "//# sourceMappingURL=data:application/json;charset=utf-8;base64,eyJ2ZXJzaW9uIjozLCJmaWxlIjoibWFpbi5qcyIsInNvdXJjZXMiOlsid2VicGFjazovLy8uL3NyYy9BcHAuanMiLCJiIFwicVwiLmpzIl0sInNvdXJjZXNDb250ZW50IjpbImNvbnNvbGUubG9nKDEpXG4iLCIiXSwibmFtZXMiOltdLCJtYXBwaW5ncyI6IjtBQUFBIn0=",
      "/*# sourceMappingURL=data:application/json;base64,eyJ2ZXJzaW9uIjozLCJzb3VyY2VzIjpbInguc3ZnIl0sInNvdXJjZXNDb250ZW50IjpbIlx1MDAzY3N2Zy9cdTAwM2UiXX0= */",
      "//# sourceMappingURL=data:application/json;base64,eyJ2ZXJzaW9uIjozLCJzb3VyY2VzIjpbXSwibWFwcGluZ3MiOiIifQ==">>

\* inline references whose payload has broken padding, is not JSON ("oops"),
\* is JSON that does not fit SourceMap ({"sources":3})
BrokenLines ==
    {"//# sourceMappingURL=data:application/json;base64,eyJ9=",
     "//# sourceMappingURL=data:application/json;base64,b29wcw==",
     "//# sourceMappingURL=data:application/json;base64,eyJzb3VyY2VzIjozfQ=="}

\* lines of scripts: code, a comment that is no reference, external
\* references in the current and the legacy syntax, inline references, a
\* data: URI that is not base64, and an inline sourcemap written with
\* spaces around '='
ScriptLines ==
    {"f()", "// see sourceMappingURL docs",
     "//# sourceMappingURL=app.js.map", "//@ sourceMappingURL = old.map\r",
     "//# sourceMappingURL=data:application/json,{}",
     "//# sourceMappingURL = data:application/json;base64,e30="}
        \cup {InlineLines[k] : k \in DOMAIN InlineLines} \cup BrokenLines

\* the text of a script: a first line, fill lines of code, a last line, and
\* what follows the last line
JsContent(s) ==
    s.head \o "\n" \o Repeat("g()\n", s.fill) \o s.tail \o s.trailing

ScriptInit ==
    /\ script \in [head : ScriptLines, fill : 0..MaxFill, tail : ScriptLines,
                   trailing : {"", "\n"}]
    /\ mappingURL = ""
    /\ inlineMap = [isNil |-> TRUE, sm |-> ZeroMap, err |-> ""]
    /\ hasInline = FALSE
    /\ scriptDone = {}
    /\ IdleExcept({"script"})

CallExtractSourceMappingURL ==
    /\ "ExtractSourceMappingURL" \notin scriptDone
    /\ mappingURL' = ExtractSourceMappingURL(JsContent(script))
    /\ scriptDone' = scriptDone \cup {"ExtractSourceMappingURL"}
    /\ UNCHANGED <<script, inlineMap, hasInline, restoreVars, disk, calls, sanVars, walkVars, run>>

CallExtractInlineSourceMap ==
    /\ "ExtractInlineSourceMap" \notin scriptDone
    /\ inlineMap' = ExtractInlineSourceMap(JsContent(script))
    /\ scriptDone' = scriptDone \cup {"ExtractInlineSourceMap"}
    /\ UNCHANGED <<script, mappingURL, hasInline, restoreVars, disk, calls, sanVars, walkVars, run>>

CallHasInlineSourceMap ==
    /\ "HasInlineSourceMap" \notin scriptDone
    /\ hasInline' = HasInlineSourceMap(JsContent(script))
    /\ scriptDone' = scriptDone \cup {"HasInlineSourceMap"}
    /\ UNCHANGED <<script, mappingURL, inlineMap, restoreVars, disk, calls, sanVars, walkVars, run>>

ScriptNext ==
    \/ CallExtractSourceMappingURL
    \/ CallExtractInlineSourceMap
    \/ CallHasInlineSourceMap

SpecScript == ScriptInit /\ [][ScriptNext]_vars

----------------------------------------------------------------------------
(* package assets: ExtractFromDirectory and ExtractFromFile.               *)

\* a < b for strings, byte by byte
RECURSIVE StrLess(_, _)
StrLess(a, b) ==
    LET Code(c) == CHOOSE n \in 0..255 : Chr[n] = c
    IN  IF b = "" THEN FALSE
        ELSE IF a = "" THEN TRUE
        ELSE IF Char(a, 1) = Char(b, 1) THEN StrLess(Tail(a), Tail(b))
        ELSE Code(Char(a, 1)) < Code(Char(b, 1))

\* filepath.WalkDir(root, fn): the paths handed to fn, in order, when every
\* directory can be read: root, then the entries of each directory by
\* name, a directory before what is in it; a root that does not exist is
\* handed to fn with an error
WalkDir(d, root) ==
    LET under == {p \in d.dirs \cup DOMAIN d.files : p = root \/ HasPrefix(p, root \o Separator)}
        RECURSIVE Before(_, _)
        Before(x, y) ==
            IF Len(x) = 0 THEN Len(y) > 0
            ELSE IF Len(y) = 0 THEN FALSE
            ELSE IF Head(x) = Head(y) THEN Before(Tail(x), Tail(y))
            ELSE StrLess(Head(x), Head(y))
        Item(p) == [path |-> p,
                    kind |-> IF p \in d.dirs THEN "dir" ELSE "file"]
        RECURSIVE Sorted(_)
        Sorted(S) ==
            IF S = {} THEN <<>>
            ELSE LET first == CHOOSE p \in S :
                                \A q \in S \ {p} : Before(Elems(p), Elems(q))
                 IN  <<Item(first)>> \o Sorted(S \ {first})
    IN  IF root \notin under THEN <<[path |-> root, kind |-> "missing"]>>
        ELSE Sorted(under)

\* filepath.Base of the path of a file
Base(path) == LET es == Elems(path) IN es[Len(es)]

\* base64ExportRe on text: [ok, mime, b64]
\*   ^export default\s+"data:(.+?);base64,(.+)";?$
Base64ExportMatch(text) ==
    LET n == Len(text)
        open == After(text, SkipSpace1(text, After(text, 1, "export default")), "\"data:")
        close == IF CharAt(text, n) = "\"" THEN n
                 ELSE IF CharAt(text, n) = ";" /\ CharAt(text, n - 1) = "\"" THEN n - 1
                 ELSE 0
        marks == {m \in (open + 1)..(close - 9) : SubSeq(text, m, m + 7) = ";base64,"}
        m == Least(marks)
    IN  IF open = 0 \/ marks = {} \/ IndexAny(text, {"\n"}, open) > 0
        THEN [ok |-> FALSE, mime |-> "", b64 |-> ""]
        ELSE [ok |-> TRUE, mime |-> SubSeq(text, open, m - 1),
              b64 |-> SubSeq(text, m + 8, close - 1)]

mimeToExt ==
    [mime \in {"image/png", "image/jpeg", "image/gif", "image/svg+xml", "image/webp",
               "font/woff", "font/woff2", "font/ttf", "font/otf",
               "application/vnd.ms-fontobject", "application/font-sfnt",
               "application/font-woff", "application/font-woff2",
               "application/octet-stream"} |->
        CASE mime = "image/png" -> "png" [] mime = "image/jpeg" -> "jpg"
          [] mime = "image/gif" -> "gif" [] mime = "image/svg+xml" -> "svg"
          [] mime = "image/webp" -> "webp" [] mime = "font/woff" -> "woff"
          [] mime = "font/woff2" -> "woff2" [] mime = "font/ttf" -> "ttf"
          [] mime = "font/otf" -> "otf"
          [] mime = "application/vnd.ms-fontobject" -> "eot"
          [] mime = "application/font-sfnt" -> "sfnt"
          [] mime = "application/font-woff" -> "woff"
          [] mime = "application/font-woff2" -> "woff2"
          [] mime = "application/octet-stream" -> "bin"]

\* a lookup in the table with nothing behind it
extensionFromMIMETableOnly(mime) ==
    IF mime \in DOMAIN mimeToExt THEN mimeToExt[mime] ELSE "bin"

extensionFromMIME(mime) ==
    LET parts == Split(mime, "/")
        subtype == parts[2]
        idx == IndexAny(subtype, {"+"}, 1)
    IN  IF mime \in DOMAIN mimeToExt THEN mimeToExt[mime]
        ELSE IF Len(parts) = 2
             THEN (IF idx # 0 THEN SubSeq(subtype, 1, idx - 1) ELSE subtype)
        ELSE "bin"

RECURSIVE stripAllExtensions(_)
stripAllExtensions(filename) ==
    LET ext == Ext(filename)
    IN  IF ext # "" THEN stripAllExtensions(SubSeq(filename, 1, Len(filename) - Len(ext)))
        ELSE IF filename = "" THEN "asset"
        ELSE filename

\* ExtractFromFile(filePath, outputDir) on the file system d, where fault is
\* what the file system does to it: [path, err, disk]
ExtractFromFile(d, filePath, outputDir, fault) ==
    LET text == TrimSpace(d.files[filePath])
        matches == Base64ExportMatch(text)
        decoded == DecodeString(matches.b64)
        ext == extensionFromMIME(matches.mime)
        outputName == stripAllExtensions(Base(filePath)) \o "." \o ext
        outputPath == Join(<<outputDir, outputName>>)
        made == MkdirAll(d, outputDir, fault)
        wrote == WriteFile(made.disk, outputPath, decoded.data, fault)
    IN  IF fault = "read" \/ filePath \notin DOMAIN d.files
        THEN [path |-> "", err |-> "failed to read file", disk |-> d]
        ELSE IF ~matches.ok THEN [path |-> "", err |-> "", disk |-> d]
        ELSE IF decoded.err
        THEN [path |-> "", err |-> "failed to decode base64", disk |-> d]
        ELSE IF made.err
        THEN [path |-> "", err |-> "failed to create output directory", disk |-> d]
        ELSE IF wrote.err
        THEN [path |-> "", err |-> "failed to write extracted asset", disk |-> wrote.disk]
        ELSE [path |-> outputPath, err |-> "", disk |-> wrote.disk]

\* assetsDir relative to the domain directory; restoreDir is OutputDir
assetsDir == "extracted_assets"

\* a callback that counts every file it was handed
CountVisited(r, ret) ==
    [ExtractedCount |-> r.ExtractedCount + 1,
     Errors |-> IF ret.err # "" THEN Append(r.Errors, ret.err) ELSE r.Errors]

\* the callback of ExtractFromDirectory after ExtractFromFile returned ret
Visited(r, ret) ==
    IF ret.err # "" THEN [r EXCEPT !.Errors = Append(@, ret.err)]
    ELSE IF ret.path # "" THEN [r EXCEPT !.ExtractedCount = @ + 1]
    ELSE r

\* the walk is at a directory, or at a root that is not there
VisitDir ==
    /\ wPc \in {"extract", "download"}
    /\ wi < Len(walk)
    /\ walk[wi + 1].kind # "file"
    /\ LET dir == walk[wi + 1].path
       IN  \E failed \in BOOLEAN :
             /\ walk[wi + 1].kind = "missing" => failed
             /\ IF failed
                THEN /\ wResult' = [wResult EXCEPT !.Errors = Append(@, "walk error at " \o dir)]
                     /\ walk' = SelectSeq(walk, LAMBDA it :
                                    ~HasPrefix(it.path, dir \o Separator))
                ELSE UNCHANGED <<wResult, walk>>
    /\ wi' = wi + 1
    /\ UNCHANGED <<wReturns, wPc, disk, calls, restoreVars, sanVars, scriptVars, run>>

\* the walk is at a regular file
VisitFile ==
    /\ wPc = "extract"
    /\ wi < Len(walk)
    /\ walk[wi + 1].kind = "file"
    /\ \E fault \in Faults \cup {"read"} :
          LET Returned(ret) ==
                  /\ disk' = ret.disk
                  /\ wReturns' = Append(wReturns, [file |-> walk[wi + 1].path,
                                                   path |-> ret.path, err |-> ret.err])
                  /\ wResult' = Visited(wResult, ret)
          IN  Returned(ExtractFromFile(disk, walk[wi + 1].path, assetsDir, fault))
    /\ wi' = wi + 1
    /\ UNCHANGED <<walk, wPc, calls, restoreVars, sanVars, scriptVars, run>>

WalkReturn ==
    /\ wPc \in {"extract", "download"}
    /\ wi = Len(walk)
    /\ wPc' = "done"
    /\ UNCHANGED <<walk, wi, wResult, wReturns, disk, calls, restoreVars, sanVars, scriptVars, run>>

\* the text of a module that exports a data: URI
Export(mime, payload) == "export default \"data:" \o mime \o ";base64," \o payload \o "\""

\* restored files: base64 exports with a MIME type of the table, with one
\* outside it, with a +suffix, without a slash; with ';' and white space
\* around the statement; a module.exports assignment; a statement followed
\* by more text on its line and on the next line; a payload that is not
\* base64; and a file that exports nothing
ExportContents ==
    {Export("image/png", "iVBORw=="),
     "\n" \o Export("image/svg+xml", "PHN2Zy8+") \o ";\n",
     Export("application/x-custom", "QUJD"),
     Export("application/vnd.api+json", "e30="),
     Export("weird", "QUJD"),
     "module.exports = \"data:image/png;base64,iVBORw==\"",
     Export("image/png", "iVBORw==") \o "; var x = \"y\"",
     Export("image/png", "iVBORw==") \o "\nconsole.log(1)",
     Export("image/png", "iVBOR"),
     "console.log(1)"}

ExportPaths ==
    {"restored_sources/.env", "restored_sources/img/logo.png.js", "restored_sources/src/a.js"}

\* the file system with the given files and the directories above them
DiskOf(files) ==
    [files |-> files, dirs |-> UNION {Ancestors(Dir(p)) : p \in DOMAIN files}]

ExtractInit ==
    /\ \E paths \in SUBSET ExportPaths :
          /\ Cardinality(paths) <= MaxFiles
          /\ \E files \in [paths -> ExportContents] :
                /\ disk = DiskOf(files)
                /\ walk = WalkDir(disk, OutputDir)
    /\ wi = 0
    /\ wResult = [ExtractedCount |-> 0, Errors |-> <<>>]
    /\ wReturns = <<>>
    /\ wPc = "extract"
    /\ calls = <<>>
    /\ IdleExcept({"walk", "disk"})

ExtractNext ==
    \/ VisitDir
    \/ VisitFile
    \/ WalkReturn

SpecExtract == ExtractInit /\ [][ExtractNext]_vars

----------------------------------------------------------------------------
(* package assets: DownloadWebpackAssets and processWebpackAsset.          *)

\* webpackAssetRe.FindSubmatch(content)[1], "" when nothing matches:
\*   (?:export\s+default|module\.exports\s*=)\s+
\*   (?:__webpack_public_path__\s*\+\s*)?"([^"]+\.(svg|png|...|webm))";?
webpackAssetRe(content) ==
    LET s == content
        media == {"svg", "png", "jpg", "jpeg", "gif", "webp", "ico", "woff", "woff2",
                  "ttf", "eot", "otf", "mp3", "wav", "ogg", "mp4", "webm"}
        Quoted(q) ==
            LET open == After(s, q, "\"")
                close == NextQuote(s, open)
                str == SubSeq(s, open, close - 1)
                dots == {m \in 2..Len(str) : Char(str, m) = "."}
            IN  IF open > 0 /\ close > open /\ dots # {}
                   /\ SubSeq(str, Greatest(dots) + 1, Len(str)) \in media
                THEN str ELSE ""
        At(n) ==
            LET exp == After(s, SkipSpace1(s, After(s, n, "export")), "default")
                modx == After(s, SkipSpace(s, After(s, n, "module.exports")), "=")
                head == IF exp > 0 THEN exp ELSE modx
                sp == SkipSpace1(s, head)
                plus == After(s, SkipSpace(s, After(s, sp, "__webpack_public_path__")), "+")
                pub == IF plus > 0 THEN SkipSpace(s, plus) ELSE 0
            IN  IF sp = 0 THEN ""
                ELSE IF pub > 0 /\ Quoted(pub) # "" THEN Quoted(pub)
                ELSE Quoted(sp)
        \* a match starts at the e of export or the m of module
        starts == {n \in 1..Len(s) : Char(s, n) \in {"e", "m"} /\ At(n) # ""}
    IN  IF starts = {} THEN "" ELSE At(Least(starts))

\* what the restored files hold: loader stubs with and without the public
\* path, a stub naming a file that is no media file, an asset already
\* fetched, and nothing (a file a failed write left truncated)
StubContents ==
    {"export default __webpack_public_path__ + \"static/media/logo.8f3a.svg\";",
     "module.exports = \"img/pic.png\"",
     "export default \"docs/manual.pdf\"",
     FetchedBytes,
     ""}

\* contents that tell the two stub detections apart: an export both know, an
\* export of a file that is no media file, of a rooted path, of a path with
\* a space, two exports, an export inside a wrapper, and an asset
PairContents ==
    {"export default __webpack_public_path__ + \"static/media/logo.8f3a.svg\";",
     "export default \"docs/manual.pdf\"",
     "module.exports = \"/img/pic.png\"",
     "export default \"img/my pic.png\"",
     "export default \"docs/manual.pdf\"; export default \"img/pic.png\"",
     "(function(){ module.exports = \"img/pic.png\" })()",
     FetchedBytes}

\* webpackAssetRe on every content a file can hold, computed once
AssetPathIn == [content \in StubContents \cup PairContents |-> webpackAssetRe(content)]

\* a comparison of the two extensions byte by byte
processWebpackAssetExact(d, filePath, origin, resp, fault) ==
    LET none == [downloaded |-> FALSE, err |-> "", url |-> "", path |-> "", disk |-> d]
        Removed(w) ==
            [w EXCEPT !.files = [p \in DOMAIN w.files \ {filePath} |-> w.files[p]]]
        Written(assetURL, newPath, wrote) ==
            IF wrote.err
            THEN [none EXCEPT !.err = "failed to write asset", !.url = assetURL,
                              !.disk = wrote.disk]
            ELSE [downloaded |-> TRUE, err |-> "", url |-> assetURL, path |-> newPath,
                  disk |-> IF newPath # filePath /\ fault # "remove"
                           THEN Removed(wrote.disk) ELSE wrote.disk]
        Fetched(assetURL, newPath) ==
            IF resp.err
            THEN [none EXCEPT !.err = "failed to download asset", !.url = assetURL]
            ELSE Written(assetURL, newPath, WriteFile(d, newPath, resp.data, fault))
        Matched(assetPath, correctExt, currentExt) ==
            IF assetPath = "" THEN none
            ELSE Fetched(origin \o "/" \o assetPath,
                         IF correctExt # currentExt /\ correctExt # ""
                         THEN SubSeq(filePath, 1, Len(filePath) - Len(currentExt))
                                  \o correctExt
                         ELSE filePath)
        Read(assetPath) == Matched(assetPath, Ext(assetPath), Ext(filePath))
    IN  IF fault = "read" THEN [none EXCEPT !.err = "failed to read file"]
        ELSE Read(AssetPathIn[d.files[filePath]])

\* processWebpackAsset(filePath, origin, client) on the file system d, for
\* the response resp of client.GetBytes and what the file system does to the
\* call (fault): [downloaded, err, url, path, disk], url the URL asked for
\* and path the path written. Read is the function after os.ReadFile, with
\* the group webpackAssetRe captured; Matched after the match, with
\* correctExt and currentExt, which are compared with strings.EqualFold;
\* Fetched after the URL and newPath are known; Written after
\* os.WriteFile. The error of os.Remove is dropped by the code: under the
\* fault "remove" the old file stays.
processWebpackAsset(d, filePath, origin, resp, fault) ==
    LET none == [downloaded |-> FALSE, err |-> "", url |-> "", path |-> "", disk |-> d]
        Removed(w) ==
            [w EXCEPT !.files = [p \in DOMAIN w.files \ {filePath} |-> w.files[p]]]
        Written(assetURL, newPath, wrote) ==
            IF wrote.err
            THEN [none EXCEPT !.err = "failed to write asset", !.url = assetURL,
                              !.disk = wrote.disk]
            ELSE [downloaded |-> TRUE, err |-> "", url |-> assetURL, path |-> newPath,
                  disk |-> IF newPath # filePath /\ fault # "remove"
                           THEN Removed(wrote.disk) ELSE wrote.disk]
        Fetched(assetURL, newPath) ==
            IF resp.err
            THEN [none EXCEPT !.err = "failed to download asset", !.url = assetURL]
            ELSE Written(assetURL, newPath, WriteFile(d, newPath, resp.data, fault))
        Matched(assetPath, correctExt, currentExt) ==
            IF assetPath = "" THEN none
            ELSE Fetched(origin \o "/" \o assetPath,
                         IF ToLower(correctExt) # ToLower(currentExt) /\ correctExt # ""
                         THEN SubSeq(filePath, 1, Len(filePath) - Len(currentExt))
                                  \o correctExt
                         ELSE filePath)
        Read(assetPath) == Matched(assetPath, Ext(assetPath), Ext(filePath))
    IN  IF fault = "read" THEN [none EXCEPT !.err = "failed to read file"]
        ELSE Read(AssetPathIn[d.files[filePath]])

\* url.Parse(baseURL): an error ends the call, else the walk starts
DownloadParse ==
    /\ wPc = "parse"
    /\ IF ParseURL(opts.BaseURL).err
       THEN /\ wResult' = [wResult EXCEPT !.Errors = Append(@, "invalid base URL")]
            /\ wPc' = "done"
       ELSE /\ wPc' = "download"
            /\ UNCHANGED wResult
    /\ UNCHANGED <<walk, wi, wReturns, disk, calls, sm, opts, pc, i, result, ioFault,
                   sanVars, scriptVars, run>>

\* the walk of DownloadWebpackAssets is at a regular file
DownloadFile ==
    /\ wPc = "download"
    /\ wi < Len(walk)
    /\ walk[wi + 1].kind = "file"
    /\ \E resp \in Responses, fault \in {"none", "read", "short", "remove"} :
          LET Returned(ret) ==
                  /\ disk' = ret.disk
                  /\ calls' = IF ret.url # "" THEN Append(calls, ret.url) ELSE calls
                  /\ ioFault' = fault
                  /\ wReturns' = Append(wReturns, [file |-> walk[wi + 1].path,
                                                   path |-> ret.path, err |-> ret.err])
                  /\ wResult' = IF ret.err # ""
                                THEN [wResult EXCEPT !.Errors = Append(@, ret.err)]
                                ELSE IF ret.downloaded
                                THEN [wResult EXCEPT !.DownloadedCount = @ + 1]
                                ELSE wResult
              Origin(parsed) == parsed.Scheme \o "://" \o parsed.Host
          IN  Returned(processWebpackAsset(disk, walk[wi + 1].path,
                                           Origin(ParseURL(opts.BaseURL)), resp, fault))
    /\ wi' = wi + 1
    /\ UNCHANGED <<walk, wPc, sm, opts, pc, i, result, sanVars, scriptVars, run>>

\* DownloadWebpackAssets(baseURL, inputDir, client) on restored sources
\* under names whose extension is that of the asset, differs from it in
\* case, differs from it, or is missing
DownloadInit ==
    /\ \E paths \in SUBSET {"restored_sources/img/logo.svg", "restored_sources/img/logo.SVG",
                            "restored_sources/img/logo.png", "restored_sources/icon"} :
          /\ Cardinality(paths) <= MaxFiles
          /\ \E files \in [paths -> StubContents \ {""}] :
                /\ disk = DiskOf(files)
                /\ walk = WalkDir(disk, OutputDir)
    /\ opts \in [isNil : {FALSE}, Fetcher : {Fetcher},
                 BaseURL : {"https://example.com/app/", ":bad"}]
    /\ wi = 0
    /\ wResult = [DownloadedCount |-> 0, Errors |-> <<>>]
    /\ wReturns = <<>>
    /\ wPc = "parse"
    /\ calls = <<>>
    /\ sm = ZeroMap
    /\ pc = "idle"
    /\ i = 0
    /\ result = EmptyResult
    /\ ioFault = "none"
    /\ IdleExcept({"walk", "disk", "restore"})

DownloadNext ==
    \/ DownloadParse
    \/ VisitDir
    \/ DownloadFile
    \/ WalkReturn

SpecDownload == DownloadInit /\ [][DownloadNext]_vars

----------------------------------------------------------------------------
(* One loader stub handed to both stub resolutions: as the only entry of a *)
(* sourcemap to RestoreSourcesWithOptions, which restores to outputDir,    *)
(* and as a file of the same relative path and content below inputDir to   *)
(* DownloadWebpackAssets, with one base URL and one client.                *)

inputDir == "restored_copy"

\* the base URLs: with scheme and host, one url.Parse refuses, the empty one,
\* and one without a scheme
BaseURLs == {"https://example.com/app/", ":bad", "", "example.com"}

PairInit ==
    /\ \E source \in StubSources, content \in PairContents :
          /\ sm = [Sources |-> <<source>>, SourcesContent |-> <<content>>]
          /\ disk = DiskOf(Join(<<inputDir, source>>) :> content)
          /\ walk = WalkDir(disk, inputDir)
    /\ opts \in [isNil : {FALSE}, Fetcher : {Fetcher}, BaseURL : BaseURLs]
    /\ pc = "loop"
    /\ i = 0
    /\ result = EmptyResult
    /\ calls = <<>>
    /\ ioFault = "none"
    /\ wi = 0
    /\ wResult = [DownloadedCount |-> 0, Errors |-> <<>>]
    /\ wReturns = <<>>
    /\ wPc = "parse"
    /\ IdleExcept({"walk", "disk", "restore"})

PairNext ==
    \/ RestoreEntry
    \/ Return
    \/ DownloadParse
    \/ VisitDir
    \/ DownloadFile
    \/ WalkReturn

SpecPair == PairInit /\ [][PairNext]_vars

----------------------------------------------------------------------------
(* package modes: RunLocal. The file system of a target is written with    *)
(* paths relative to the target's directory (domainPath); the targets of   *)
(* a run are directories apart from each other, and disk is the file       *)
(* system of the target the run is at.                                     *)

MaxTargets == 2

\* sourcemap.ParseFile(path) on the file system d: [isNil, sm, err]
ParseFile(d, path, fault) ==
    IF fault = "read" \/ path \notin DOMAIN d.files
    THEN [isNil |-> TRUE, sm |-> ZeroMap, err |-> "failed to read sourcemap file"]
    ELSE Parse(d.files[path])

\* json.MarshalIndent(sm, "", "  ") of a sourcemap of version 3 that has no
\* file, sourceRoot, names, mappings or sections, as the sourcemaps of the
\* model are: "sources" is always written, "sourcesContent" when not empty
MarshalIndent(m) ==
    LET Escaped(c) ==
            CASE c = "\"" -> "\\\"" [] c = "\\" -> "\\\\" [] c = "\n" -> "\\n"
              [] c = "\r" -> "\\r" [] c = "\t" -> "\\t"
              [] c = "<" -> "\\u003c" [] c = ">" -> "\\u003e" [] c = "&" -> "\\u0026"
              [] OTHER -> c
        Quote(s) ==
            "\"" \o Concat([k \in 1..Len(s) |-> Escaped(Char(s, k))], 1, Len(s)) \o "\""
        Array(a) ==
            IF Len(a) = 0 THEN "[]"
            ELSE "[\n" \o JoinStrings([k \in 1..Len(a) |-> "    " \o Quote(a[k])], ",\n")
                       \o "\n  ]"
    IN  "{\n  \"version\": 3,\n  \"sources\": " \o Array(m.Sources)
            \o (IF Len(m.SourcesContent) = 0 THEN ""
                ELSE ",\n  \"sourcesContent\": " \o Array(m.SourcesContent))
            \o "\n}"

\* fmt.Errorf(msg + " %s: %w", name, err) as an element of result.Errors
RunError(msg, name) == [msg |-> msg, source |-> name]

\* an error that ends the loop over the entries
EntryFailedBreaks(r, err) ==
    [r EXCEPT !.result.Errors = Append(@, err), !.e = Len(r.entries)]

\* result.Errors = append(result.Errors, err), and the loop goes on
EntryFailed(r, err) ==
    [r EXCEPT !.result.Errors = Append(@, err), !.e = @ + 1]

\* the entry of the loop is done without an error
EntryDone(r) == [r EXCEPT !.e = @ + 1]

\* the run has dealt with the entry name of the list at: its outcome
Saw(r, at, name, outcome) ==
    [r EXCEPT !.seen = Append(@, [t |-> at, name |-> name, outcome |-> outcome])]

\* processLocalDomain has returned err ("" for nil): the loop of RunLocal
\* appends it, counts the target and goes to the next one, or returns
\* (result, nil) after the last
TargetDone(r, err) ==
    LET counted == [r EXCEPT !.result.TargetsProcessed = @ + 1,
                             !.result.Errors = IF err = "" THEN @
                                               ELSE Append(@, RunError(err, "")),
                             !.t = @ + 1]
    IN  IF counted.t < Len(r.targets) THEN [counted EXCEPT !.pc = "domain"]
        ELSE [counted EXCEPT !.pc = "returned", !.ret = "result"]

\* sourcemap.RestoreSources(m, restoreDir) is entered
RestoreSources(m) ==
    /\ sm' = m
    /\ opts' = NilOpts
    /\ pc' = "loop"
    /\ i' = 0
    /\ result' = EmptyResult
    /\ ioFault' = "none"

\* RunLocal up to its loop: the target given, or the directories of
\* cfg.OutputRoot; filepath.Abs or os.ReadDir may fail
LocalStart ==
    /\ run.mode = "local"
    /\ run.pc = "start"
    /\ \E failed \in BOOLEAN :
          run' = IF failed THEN [run EXCEPT !.pc = "returned", !.ret = "error"]
                 ELSE IF Len(run.targets) = 0
                 THEN [run EXCEPT !.pc = "returned", !.ret = "result"]
                 ELSE [run EXCEPT !.pc = "domain"]
    /\ UNCHANGED <<disk, calls, restoreVars, sanVars, scriptVars, walkVars>>

\* processLocalDomain up to its loop over the entries of downloaded_site
LocalDomain ==
    /\ run.mode = "local"
    /\ run.pc = "domain"
    /\ LET d == run.targets[run.t + 1]
           downloadDir == "downloaded_site"
           entries == SelectSeq(WalkDir(d, downloadDir),
                                LAMBDA it : Dir(it.path) = downloadDir)
       IN  IF downloadDir \notin d.dirs \cup DOMAIN d.files
           THEN /\ run' = TargetDone(run, "")
                /\ disk' = d
           ELSE \E failed \in BOOLEAN :
                  /\ disk' = MkdirAll(MkdirAll(d, OutputDir, "none").disk,
                                      assetsDir, "none").disk
                  /\ run' = IF failed
                            THEN Saw(TargetDone(run, "failed to read download directory"),
                                     run.t + 1, downloadDir,
                                     "failed to read download directory")
                            ELSE [run EXCEPT !.pc = "entries", !.entries = entries,
                                             !.e = 0]
    /\ UNCHANGED <<calls, restoreVars, sanVars, scriptVars, walkVars>>

\* one entry of downloaded_site: processMapFile for a name ending in .map,
\* processJSFile for a name ending in .js, each up to its call of
\* RestoreSources
LocalEntry ==
    /\ run.mode = "local"
    /\ run.pc = "entries"
    /\ run.e < Len(run.entries)
    /\ LET entry == run.entries[run.e + 1]
           name == Base(entry.path)
           HasSuffix(suffix) ==
               Len(name) >= Len(suffix)
                   /\ SubSeq(name, Len(name) - Len(suffix) + 1, Len(name)) = suffix
           Skip(d) ==
               /\ run' = Saw(EntryDone(run), run.t + 1, name, "none")
               /\ disk' = d
               /\ UNCHANGED restoreVars
           Fail(msg, d) ==
               /\ run' = Saw(EntryFailed(run, RunError(msg, name)), run.t + 1, name, msg)
               /\ disk' = d
               /\ UNCHANGED restoreVars
           Restore(m, d) ==
               /\ run' = Saw([run EXCEPT !.pc = "restore"], run.t + 1, name, "decoded")
               /\ disk' = d
               /\ RestoreSources(m)
       IN  IF entry.kind # "file" THEN Skip(disk)
           ELSE IF HasSuffix(".map")
           THEN \E fault \in {"none", "read"} :
                   LET Parsed(parsed) ==
                           IF parsed.err # "" THEN Fail("failed to parse", disk)
                           ELSE Restore(parsed.sm, disk)
                   IN  Parsed(ParseFile(disk, entry.path, fault))
           ELSE IF HasSuffix(".js")
           THEN \E fault \in {"none", "read", "short"} :
                   LET Saved(m, wrote) ==
                           IF wrote.err THEN Fail("failed to save inline map", wrote.disk)
                           ELSE Restore(m, wrote.disk)
                       Extracted(inline) ==
                           IF inline.err # ""
                           THEN Fail("failed to extract inline sourcemap", disk)
                           ELSE IF inline.isNil THEN Skip(disk)
                           ELSE Saved(inline.sm,
                                      WriteFile(disk, entry.path \o ".inline.map",
                                                MarshalIndent(inline.sm), fault))
                       Read(jsContent) ==
                           IF ~HasInlineSourceMap(jsContent) THEN Skip(disk)
                           ELSE Extracted(ExtractInlineSourceMap(jsContent))
                   IN  IF fault = "read" THEN Fail("failed to read", disk)
                       ELSE Read(disk.files[entry.path])
           ELSE Skip(disk)
    /\ UNCHANGED <<calls, sanVars, scriptVars, walkVars>>

\* RestoreSources has returned to processMapFile or processJSFile
LocalRestored ==
    /\ run.mode = "local"
    /\ run.pc = "restore"
    /\ pc = "done"
    /\ run' = [run EXCEPT !.pc = "entries", !.e = @ + 1,
                          !.result.MapsProcessed = @ + 1,
                          !.result.SourcesRestored = @ + result.RestoredCount,
                          !.result.Errors = @ \o result.Errors]
    /\ pc' = "idle"
    /\ sm' = ZeroMap
    /\ i' = 0
    /\ result' = EmptyResult
    /\ ioFault' = "none"
    /\ UNCHANGED <<opts, disk, calls, sanVars, scriptVars, walkVars>>

\* the entries are done: assets.ExtractFromDirectory(restoreDir, assetsDir)
LocalExtract ==
    /\ run.mode = "local"
    /\ run.pc = "entries"
    /\ run.e = Len(run.entries)
    /\ run' = [run EXCEPT !.pc = "extract"]
    /\ walk' = WalkDir(disk, OutputDir)
    /\ wi' = 0
    /\ wResult' = [ExtractedCount |-> 0, Errors |-> <<>>]
    /\ wReturns' = <<>>
    /\ wPc' = "extract"
    /\ UNCHANGED <<disk, calls, restoreVars, sanVars, scriptVars>>

\* ExtractFromDirectory has returned: processLocalDomain returns nil
LocalExtracted ==
    /\ run.mode = "local"
    /\ run.pc = "extract"
    /\ wPc = "done"
    /\ run' = TargetDone(
                [run EXCEPT !.result.AssetsExtracted = @ + wResult.ExtractedCount,
                            !.result.Errors = @ \o [k \in 1..Len(wResult.Errors) |->
                                                      RunError(wResult.Errors[k], "")]],
                "")
    /\ walk' = <<>>
    /\ wi' = 0
    /\ wResult' = [ExtractedCount |-> 0, Errors |-> <<>>]
    /\ wReturns' = <<>>
    /\ wPc' = "idle"
    /\ UNCHANGED <<disk, calls, restoreVars, sanVars, scriptVars>>

\* downloaded_site as an earlier run left it: a sourcemap that does not
\* parse, one that does, a script whose inline sourcemap does not decode
\* ("oops"), one whose inline sourcemap does, a script without a sourcemap,
\* and a sourcemap in a directory below, which the listing does not enter
SiteFiles ==
    LET inline == "f()\n//# sourceMappingURL=data:application/json;base64,"
    IN  [name \in {"downloaded_site/app.js.map", "downloaded_site/lib.map",
                   "downloaded_site/main.js", "downloaded_site/vendor.js",
                   "downloaded_site/x.js", "downloaded_site/static/y.map"} |->
            CASE name = "downloaded_site/app.js.map" -> "{\"version\":3,\"sources\":["
              [] name = "downloaded_site/main.js" -> inline \o "b29wcw=="
              [] name = "downloaded_site/vendor.js" ->
                    inline \o "eyJ2ZXJzaW9uIjozLCJzb3VyY2VzIjpbIndlYnBhY2s6Ly8vLi9zcmMvQXBwLmpzIl0sInNvdXJjZXNDb250ZW50IjpbIng9MSJdfQ=="
              [] name = "downloaded_site/x.js" -> "f()"
              [] OTHER -> "{\"version\":3,\"sources\":[\"src/App.js\"],\"sourcesContent\":[\"console.log(1)\"]}"]

\* the targets of a run: directories without downloaded_site, with an empty
\* one, and with some of SiteFiles
Layouts ==
    {EmptyDisk, [EmptyDisk EXCEPT !.dirs = {"downloaded_site"}]}
        \cup {DiskOf([n \in names |-> SiteFiles[n]]) :
                 names \in {ns \in SUBSET DOMAIN SiteFiles :
                               ns # {} /\ Cardinality(ns) <= MaxFiles}}

\* RunLocal before its first step, with the result it starts from
LocalRun(targets) ==
    [mode |-> "local", pc |-> "start", targets |-> targets, t |-> 0,
     entries |-> <<>>, e |-> 0, ret |-> "", seen |-> <<>>,
     result |-> [TargetsProcessed |-> 0, MapsProcessed |-> 0,
                 SourcesRestored |-> 0, AssetsExtracted |-> 0,
                 Errors |-> <<>>]]

\* RunLocal on up to MaxTargets targets that hold up to MaxFiles files
\* between them
LocalInit ==
    /\ LET Files(ts) == LET RECURSIVE Sum(_)
                            Sum(k) == IF k = 0 THEN 0
                                      ELSE Cardinality(DOMAIN ts[k].files) + Sum(k - 1)
                        IN  Sum(Len(ts))
       IN  \E targets \in SeqsUpTo(Layouts, MaxTargets) :
             /\ Files(targets) <= MaxFiles
             /\ run = LocalRun(targets)
    /\ IdleExcept({"run"})

\* downloaded_site as an earlier run over the same scripts left it: next to
\* vendor.js the vendor.js.inline.map that processJSFile, processScriptForMaps
\* or RunSingle saved for it
SavedFiles ==
    LET js == "downloaded_site/vendor.js"
        names == {js, "downloaded_site/main.js", "downloaded_site/lib.map"}
    IN  [name \in names |-> SiteFiles[name]]
            @@ ((js \o ".inline.map") :>
                    MarshalIndent(ExtractInlineSourceMap(SiteFiles[js]).sm))

\* RunLocal on one target that holds some of SavedFiles
AgainInit ==
    /\ \E names \in SUBSET DOMAIN SavedFiles :
          run = LocalRun(<<DiskOf([n \in names |-> SavedFiles[n]])>>)
    /\ IdleExcept({"run"})

AgainNext ==
    \/ LocalStart
    \/ LocalDomain
    \/ LocalEntry
    \/ LocalRestored
    \/ LocalExtract
    \/ LocalExtracted
    \/ RestoreEntry
    \/ Return
    \/ VisitDir
    \/ VisitFile
    \/ WalkReturn

SpecAgain == AgainInit /\ [][AgainNext]_vars

----------------------------------------------------------------------------
(* package modes: RunURL. The file system is the output directory of the   *)
(* domain (paths.Base), with paths relative to it.                         *)

\* (*url.URL).Path of a URL of a scheme, a host and a path, without the
\* query and the fragment
URLPath(rawURL) ==
    LET colon == IndexAny(rawURL, {":"}, 1)
        rest == IF After(rawURL, colon, "://") > 0
                THEN SubSeq(rawURL, colon + 3, Len(rawURL)) ELSE rawURL
        slash == IF After(rawURL, colon, "://") > 0 THEN IndexAny(rest, {"/"}, 1) ELSE 1
        stop == IndexAny(rest, {"?", "#"}, 1)
        to == IF stop = 0 THEN Len(rest) ELSE stop - 1
    IN  IF slash = 0 \/ slash > to THEN "" ELSE SubSeq(rest, slash, to)

\* filepath.Base: "." for the empty path, the separator for a path of
\* separators only, else the last element
PathBase(path) ==
    LET es == SelectSeq(SplitFrom(path, {Separator}, 1), LAMBDA e : e # "")
    IN  IF path = "" THEN "."
        ELSE IF Len(es) = 0 THEN Separator
        ELSE es[Len(es)]

filenameFromURL(rawURL) ==
    LET Named(base) == IF base \in {"", "/", "."} THEN "index.js" ELSE base
    IN  IF ParseURL(rawURL).err THEN "unknown.js" ELSE Named(PathBase(URLPath(rawURL)))

\* resolveURL for a reference without dot segments, query or fragment: an
\* absolute URL, a path from the root of the host, or a path relative to
\* the directory of the base
resolveURL(baseURL, ref) ==
    LET Resolved(base, path) ==
            IF ParseURL(ref).Scheme # "" THEN ref
            ELSE IF ref = "" THEN baseURL
            ELSE IF HasPrefix(ref, "/")
            THEN URLString([Scheme |-> base.Scheme, Host |-> base.Host, Path |-> ref])
            ELSE URLString([Scheme |-> base.Scheme, Host |-> base.Host,
                            Path |-> SubSeq(path, 1, Greatest({0} \cup Indexes(path, "/")))
                                        \o (IF path = "" THEN "/" ELSE "") \o ref])
    IN  IF ParseURL(baseURL).err THEN [err |-> "invalid base URL", url |-> ""]
        ELSE IF ParseURL(ref).err THEN [err |-> "invalid reference URL", url |-> ""]
        ELSE [err |-> "", url |-> Resolved(ParseURL(baseURL), URLPath(baseURL))]

\* what the server of the page answers with status 200: a sourcemap, text
\* that is no sourcemap, a script that names app.js.map, scripts with an
\* inline sourcemap that decodes (it has no sourcesContent) and with one
\* that does not ("oops"), and the page itself; any other URL is answered
\* with another status
Served ==
    LET inline == "f()\n//# sourceMappingURL=data:application/json;base64,"
    IN  [u \in {"https://example.com/static/app.js.map",
                "https://example.com/static/bad.js.map",
                "https://example.com/static/app.js",
                "https://example.com/static/inline.js",
                "https://example.com/static/broken.js",
                "https://example.com/"} |->
            CASE u = "https://example.com/static/app.js.map" ->
                    "{\"version\":3,\"sources\":[\"src/App.js\"],\"sourcesContent\":[\"console.log(1)\"]}"
              [] u = "https://example.com/static/bad.js.map" -> "<html>Not Found</html>"
              [] u = "https://example.com/static/app.js" -> "f()\n//# sourceMappingURL=app.js.map"
              [] u = "https://example.com/static/inline.js" ->
                    inline \o "eyJ2ZXJzaW9uIjozLCJzb3VyY2VzIjpbXSwibWFwcGluZ3MiOiIifQ=="
              [] u = "https://example.com/static/broken.js" -> inline \o "b29wcw=="
              [] OTHER -> "<html></html>"]

\* (*fetch.Client).Download(url, destPath): the request may fail, and the
\* copy of the body may, which removes the file
Download(d, rawURL, destPath, fault) ==
    LET Created(made) ==
            IF made.err \/ destPath \in made.disk.dirs THEN [err |-> TRUE, disk |-> made.disk]
            ELSE IF fault = "copy"
            THEN [err |-> TRUE,
                  disk |-> [made.disk EXCEPT !.files =
                               [p \in DOMAIN made.disk.files \ {destPath} |-> made.disk.files[p]]]]
            ELSE WriteFile(made.disk, destPath, Served[rawURL], "none")
    IN  IF fault = "get" \/ rawURL \notin DOMAIN Served THEN [err |-> TRUE, disk |-> d]
        ELSE Created(MkdirAll(d, Dir(destPath), fault))

downloadedSite == "downloaded_site"

\* a slip that never looks whether the output directory exists
RefusedNever(r) == FALSE

\* paths.Exists() && !cfg.Force
Refused(r) == r.exists /\ ~r.Force

\* RunURL up to its loops: the scheme, the output directory and the
\* resources the browser discovers
URLStart ==
    /\ run.mode = "url"
    /\ run.pc = "start"
    /\ LET error == [run EXCEPT !.pc = "returned", !.ret = "error"]
       IN  IF ~HasPrefix(run.targetURL, "http://") /\ ~HasPrefix(run.targetURL, "https://")
           THEN run' = error /\ UNCHANGED disk
           ELSE IF ParseURL(run.targetURL).err
           THEN run' = error /\ UNCHANGED disk
           ELSE IF Refused(run)
           THEN run' = error /\ UNCHANGED disk
           ELSE \E fault \in {"none", "mkdir"}, failed \in BOOLEAN :
                   LET Ensured(made) ==
                           /\ disk' = made.disk
                           /\ run' = IF made.err \/ failed THEN error
                                     ELSE [run EXCEPT !.pc = "maps", !.entries = run.maps,
                                                      !.e = 0,
                                                      !.result.ScriptsFound = Len(run.scripts)]
                   IN  Ensured(MkdirAll(MkdirAll(MkdirAll(disk, downloadedSite, fault).disk,
                                                 OutputDir, fault).disk,
                                        assetsDir, fault))
    /\ UNCHANGED <<calls, restoreVars, sanVars, scriptVars, walkVars>>

\* processSourceMap(cfg, mapURL, paths, result) up to its call of
\* RestoreSources, in the run r that has marked mapURL, on the file system
\* d; an error goes to result.Errors, in RunURL or through
\* processScriptForMaps
processSourceMap(r, d, mapURL, name) ==
    \E fault \in {"none", "get", "copy", "read"} :
        LET mapPath == Join(<<downloadedSite, filenameFromURL(mapURL)>>)
            Parsed(parsed, after) ==
                IF parsed.err # ""
                THEN /\ run' = Saw(EntryFailed(r, RunError("failed to parse sourcemap", name)),
                                   r.pc, name, "failed to parse sourcemap")
                     /\ disk' = after
                     /\ UNCHANGED restoreVars
                ELSE /\ run' = Saw([r EXCEPT !.back = r.pc, !.pc = "restore"],
                                   r.pc, name, "decoded")
                     /\ disk' = after
                     /\ RestoreSources(parsed.sm)
            Got(got) ==
                IF got.err
                THEN /\ run' = Saw(EntryFailed(r, RunError("failed to download sourcemap", name)),
                                   r.pc, name, "failed to download sourcemap")
                     /\ disk' = got.disk
                     /\ UNCHANGED restoreVars
                ELSE Parsed(ParseFile(got.disk, mapPath, fault), got.disk)
        IN  Got(Download(d, mapURL, mapPath, fault))

\* a slip that forgets to mark a sourcemap as processed
MarkNothing(r, key) == r

\* processedMaps[key] = true
Mark(r, key) == [r EXCEPT !.processedMaps = @ \cup {key}]

\* one sourcemap of discovered.SourceMaps
URLMap ==
    /\ run.mode = "url"
    /\ run.pc = "maps"
    /\ run.e < Len(run.entries)
    /\ LET mapURL == run.entries[run.e + 1]
       IN  IF mapURL \in run.processedMaps
           THEN /\ run' = Saw(EntryDone(run), "maps", mapURL, "duplicate")
                /\ UNCHANGED <<disk, restoreVars>>
           ELSE processSourceMap(Mark(run, mapURL), disk, mapURL, mapURL)
    /\ UNCHANGED <<calls, sanVars, scriptVars, walkVars>>

\* the sourcemaps are done: the loop over discovered.Scripts
URLScripts ==
    /\ run.mode = "url"
    /\ run.pc = "maps"
    /\ run.e = Len(run.entries)
    /\ run' = [run EXCEPT !.pc = "scripts", !.entries = run.scripts, !.e = 0]
    /\ UNCHANGED <<disk, calls, restoreVars, sanVars, scriptVars, walkVars>>

\* one script of discovered.Scripts: processScriptForMaps up to its call of
\* RestoreSources or of processSourceMap
URLScript ==
    /\ run.mode = "url"
    /\ run.pc = "scripts"
    /\ run.e < Len(run.entries)
    /\ LET scriptURL == run.entries[run.e + 1]
           scriptPath == Join(<<downloadedSite, filenameFromURL(scriptURL)>>)
           inlineKey == scriptURL \o ":inline"
           Done(outcome, d) ==
               /\ run' = Saw(EntryDone(run), "scripts", scriptURL, outcome)
               /\ disk' = d
               /\ UNCHANGED restoreVars
           Fail(msg, d) ==
               /\ run' = Saw(EntryFailed(run, RunError(msg, scriptURL)),
                             "scripts", scriptURL, msg)
               /\ disk' = d
               /\ UNCHANGED restoreVars
           Restore(m, d) ==
               /\ run' = Saw([Mark(run, inlineKey) EXCEPT !.back = "scripts",
                                                          !.pc = "restore"],
                             "scripts", scriptURL, "decoded")
               /\ disk' = d
               /\ RestoreSources(m)
           Resolved(resolved, d) ==
               IF resolved.err # "" THEN Fail("failed to resolve map URL", d)
               ELSE IF resolved.url \in run.processedMaps THEN Done("duplicate", d)
               ELSE processSourceMap(Mark(run, resolved.url), d, resolved.url, scriptURL)
           External(mapURL, d) ==
               IF mapURL = "" THEN Done("none", d)
               ELSE Resolved(resolveURL(scriptURL, mapURL), d)
           Extracted(inline, jsContent, d, fault) ==
               IF inline.err # "" THEN Fail("failed to extract inline sourcemap", d)
               ELSE IF ~inline.isNil
               THEN Restore(inline.sm,
                            WriteFile(d, scriptPath \o ".inline.map",
                                      MarshalIndent(inline.sm), fault).disk)
               ELSE External(ExtractSourceMappingURL(jsContent), d)
           Read(jsContent, d, fault) ==
               IF HasInlineSourceMap(jsContent) /\ inlineKey \in run.processedMaps
               THEN Done("duplicate", d)
               ELSE Extracted(IF HasInlineSourceMap(jsContent)
                              THEN ExtractInlineSourceMap(jsContent)
                              ELSE [isNil |-> TRUE, sm |-> ZeroMap, err |-> ""],
                              jsContent, d, fault)
           Got(got, fault) ==
               IF got.err THEN Fail("failed to download", got.disk)
               ELSE IF fault = "read" THEN Fail("failed to read downloaded script", got.disk)
               ELSE Read(got.disk.files[scriptPath], got.disk, fault)
       IN  \E fault \in {"none", "get", "read", "short"} :
              Got(Download(disk, scriptURL, scriptPath, fault), fault)
    /\ UNCHANGED <<calls, sanVars, scriptVars, walkVars>>

\* RestoreSources has returned to processSourceMap or processScriptForMaps
URLRestored ==
    /\ run.mode = "url"
    /\ run.pc = "restore"
    /\ pc = "done"
    /\ run' = [run EXCEPT !.pc = run.back, !.e = @ + 1,
                          !.result.SourcesRestored = @ + result.RestoredCount,
                          !.result.Errors = @ \o result.Errors]
    /\ pc' = "idle"
    /\ sm' = ZeroMap
    /\ i' = 0
    /\ result' = EmptyResult
    /\ ioFault' = "none"
    /\ UNCHANGED <<opts, disk, calls, sanVars, scriptVars, walkVars>>

\* what package envars writes to restored_sources/.env
EnvFile == "API_URL=https://api.example.com\n"

\* the scripts are done: MapsDiscovered, the environment variables of the
\* scripts of downloaded_site (package envars finds none, or some and
\* writes them, or fails to write them), and
\* assets.ExtractFromDirectory(paths.RestoredSources, paths.ExtractedAssets)
URLExtract ==
    /\ run.mode = "url"
    /\ run.pc = "scripts"
    /\ run.e = Len(run.entries)
    /\ \E env \in {"none", "written", "failed"} :
          LET counted == [run EXCEPT !.pc = "extract",
                                    !.result.MapsDiscovered = Cardinality(run.processedMaps)]
              scripts == {p \in DOMAIN disk.files :
                             Dir(p) = downloadedSite /\ Ext(p) = ".js"}
          IN  /\ env # "none" => scripts # {}
              /\ run' = CASE env = "none" -> counted
                          [] env = "written" -> [counted EXCEPT !.result.EnvVarsExtracted = 1]
                          [] env = "failed" ->
                                [counted EXCEPT !.result.Errors =
                                    Append(@, RunError("failed to write .env file", ""))]
              /\ disk' = IF env = "written"
                         THEN WriteFile(disk, Join(<<OutputDir, ".env">>), EnvFile, "none").disk
                         ELSE disk
    /\ walk' = WalkDir(disk', OutputDir)
    /\ wi' = 0
    /\ wResult' = [ExtractedCount |-> 0, Errors |-> <<>>]
    /\ wReturns' = <<>>
    /\ wPc' = "extract"
    /\ UNCHANGED <<calls, restoreVars, sanVars, scriptVars>>

\* ExtractFromDirectory has returned: RunURL returns (result, nil)
URLExtracted ==
    /\ run.mode = "url"
    /\ run.pc = "extract"
    /\ wPc = "done"
    /\ run' = [run EXCEPT !.pc = "returned", !.ret = "result",
                          !.result.AssetsExtracted = wResult.ExtractedCount,
                          !.result.Errors = @ \o [k \in 1..Len(wResult.Errors) |->
                                                    RunError(wResult.Errors[k], "")]]
    /\ walk' = <<>>
    /\ wi' = 0
    /\ wResult' = [ExtractedCount |-> 0, Errors |-> <<>>]
    /\ wReturns' = <<>>
    /\ wPc' = "idle"
    /\ UNCHANGED <<disk, calls, restoreVars, sanVars, scriptVars>>

\* RunURL(cfg, targetURL) is entered: cfg.Force, what paths.Exists() will
\* answer, and what the browser will discover
URLRun(targetURL, Force, exists, maps, scripts) ==
    [mode |-> "url", pc |-> "start", targetURL |-> targetURL,
     Force |-> Force, exists |-> exists, maps |-> maps, scripts |-> scripts,
     entries |-> <<>>, e |-> 0, processedMaps |-> {}, back |-> "",
     ret |-> "", seen |-> <<>>,
     result |-> [URL |-> targetURL, ScriptsFound |-> 0, MapsDiscovered |-> 0,
                 SourcesRestored |-> 0, AssetsExtracted |-> 0,
                 EnvVarsExtracted |-> 0, Errors |-> <<>>]]

\* RunURL on a page where the browser discovers up to MaxFiles sourcemaps
\* and scripts, some of them twice, with and without cfg.Force and an
\* output directory of an earlier run
URLInit ==
    /\ \E targetURL \in {"https://example.com/", "example.com"}, Force, exists \in BOOLEAN,
          maps \in SeqsUpTo({"https://example.com/static/app.js.map",
                             "https://example.com/static/bad.js.map",
                             "https://example.com/static/gone.js.map"}, MaxFiles),
          scripts \in SeqsUpTo({"https://example.com/static/app.js",
                                "https://example.com/static/inline.js",
                                "https://example.com/static/broken.js",
                                "https://example.com/"}, MaxFiles) :
          /\ Len(maps) + Len(scripts) <= MaxFiles
          /\ run = URLRun(targetURL, Force, exists, maps, scripts)
    /\ IdleExcept({"run"})

\* a run of RunLocal or of RunURL
RunInit == LocalInit \/ URLInit

RunNext ==
    \/ LocalStart
    \/ LocalDomain
    \/ LocalEntry
    \/ LocalRestored
    \/ LocalExtract
    \/ LocalExtracted
    \/ URLStart
    \/ URLMap
    \/ URLScripts
    \/ URLScript
    \/ URLRestored
    \/ URLExtract
    \/ URLExtracted
    \/ ReturnNoContent
    \/ RestoreEntry
    \/ Return
    \/ VisitDir
    \/ VisitFile
    \/ WalkReturn

SpecRun == RunInit /\ [][RunNext]_vars

----------------------------------------------------------------------------
(* package modes: RunSingle, and runs over the output of an earlier run.   *)
(* The file system is the output directory of the domain (paths.Base).     *)

\* RunSingle returns (nil, err)
SingleError(r, msg) == [r EXCEPT !.pc = "returned", !.ret = "error", !.err = msg]

\* RunSingle up to the download: the scheme, the output directory
SingleStart ==
    /\ run.mode = "single"
    /\ run.pc = "start"
    /\ IF ~HasPrefix(run.scriptURL, "http://") /\ ~HasPrefix(run.scriptURL, "https://")
       THEN run' = SingleError(run, "invalid URL") /\ UNCHANGED disk
       ELSE IF ParseURL(run.scriptURL).err
       THEN run' = SingleError(run, "invalid URL") /\ UNCHANGED disk
       ELSE IF Refused(run)
       THEN run' = SingleError(run, "output directory already exists") /\ UNCHANGED disk
       ELSE \E fault \in {"none", "mkdir"} :
               LET Ensured(made) ==
                       /\ disk' = made.disk
                       /\ run' = IF made.err THEN SingleError(run, "failed to create directory")
                                 ELSE [run EXCEPT !.pc = "script"]
               IN  Ensured(MkdirAll(MkdirAll(MkdirAll(disk, downloadedSite, fault).disk,
                                             OutputDir, fault).disk,
                                    assetsDir, fault))
    /\ UNCHANGED <<calls, restoreVars, sanVars, scriptVars, walkVars>>

\* RunSingle from the download of the script to its call of RestoreSources
\* or its return
SingleScript ==
    /\ run.mode = "single"
    /\ run.pc = "script"
    /\ LET scriptURL == run.scriptURL
           scriptPath == Join(<<downloadedSite, filenameFromURL(scriptURL)>>)
           Fail(msg, d) ==
               /\ run' = SingleError(run, msg)
               /\ disk' = d
               /\ UNCHANGED restoreVars
           Restore(m, d) ==
               /\ run' = [run EXCEPT !.pc = "restore", !.result.MapFound = TRUE]
               /\ disk' = d
               /\ RestoreSources(m)
           Parsed(parsed, d) ==
               IF parsed.err # "" THEN Fail("failed to parse sourcemap", d)
               ELSE Restore(parsed.sm, d)
           GotMap(got, mapPath, fault) ==
               IF got.err THEN Fail("failed to download sourcemap", got.disk)
               ELSE Parsed(ParseFile(got.disk, mapPath, fault), got.disk)
           Named(mapURL, mapPath, d) ==
               \E fault \in {"none", "get", "copy", "read"} :
                   GotMap(Download(d, mapURL, mapPath, fault), mapPath, fault)
           Resolved(resolved, d) ==
               IF resolved.err # "" THEN Fail("failed to resolve map URL", d)
               ELSE Named(resolved.url,
                          Join(<<downloadedSite, filenameFromURL(resolved.url)>>), d)
           External(mapURL, d) ==
               IF mapURL = ""
               THEN /\ run' = [run EXCEPT !.pc = "returned", !.ret = "result"]
                    /\ disk' = d
                    /\ UNCHANGED restoreVars
               ELSE Resolved(resolveURL(scriptURL, mapURL), d)
           Extracted(inline, jsContent, d, fault) ==
               IF inline.err # "" THEN Fail("failed to extract inline sourcemap", d)
               ELSE IF ~inline.isNil
               THEN Restore(inline.sm,
                            WriteFile(d, scriptPath \o ".inline.map",
                                      MarshalIndent(inline.sm), fault).disk)
               ELSE External(ExtractSourceMappingURL(jsContent), d)
           Read(jsContent, d, fault) ==
               Extracted(IF HasInlineSourceMap(jsContent)
                         THEN ExtractInlineSourceMap(jsContent)
                         ELSE [isNil |-> TRUE, sm |-> ZeroMap, err |-> ""],
                         jsContent, d, fault)
           Got(got, fault) ==
               IF got.err THEN Fail("failed to download script", got.disk)
               ELSE IF fault = "read" THEN Fail("failed to read downloaded script", got.disk)
               ELSE Read(got.disk.files[scriptPath], got.disk, fault)
       IN  \E fault \in {"none", "get", "read", "short"} :
              Got(Download(disk, scriptURL, scriptPath, fault), fault)
    /\ UNCHANGED <<calls, sanVars, scriptVars, walkVars>>

\* RestoreSources has returned: RunSingle returns (result, nil)
SingleRestored ==
    /\ run.mode = "single"
    /\ run.pc = "restore"
    /\ pc = "done"
    /\ run' = [run EXCEPT !.pc = "returned", !.ret = "result",
                          !.result.SourcesRestored = result.RestoredCount,
                          !.result.Errors = result.Errors]
    /\ pc' = "idle"
    /\ sm' = ZeroMap
    /\ i' = 0
    /\ result' = EmptyResult
    /\ ioFault' = "none"
    /\ UNCHANGED <<opts, disk, calls, sanVars, scriptVars, walkVars>>

\* RunSingle(cfg, scriptURL) is entered
SingleRun(scriptURL, Force, exists) ==
    [mode |-> "single", pc |-> "start", scriptURL |-> scriptURL,
     Force |-> Force, exists |-> exists, ret |-> "", err |-> "",
     result |-> [URL |-> scriptURL, SourcesRestored |-> 0, MapFound |-> FALSE,
                 Errors |-> <<>>]]

\* what an earlier run for the domain left in its output directory
Earlier ==
    [files |-> ("downloaded_site/app.js" :> "old()")
                  @@ ("restored_sources/src/App.js" :> "old"),
     dirs |-> {"downloaded_site", "restored_sources", "restored_sources/src",
               "extracted_assets"}]

\* RunURL or RunSingle for a domain whose output directory does not exist,
\* exists and is empty, or holds the output of an earlier run, with and
\* without cfg.Force
OverInit ==
    /\ \E Force, exists \in BOOLEAN :
          /\ disk \in (IF exists THEN {EmptyDisk, Earlier} ELSE {EmptyDisk})
          /\ \/ \E maps \in SeqsUpTo({"https://example.com/static/app.js.map"}, 1),
                   scripts \in SeqsUpTo({"https://example.com/static/app.js",
                                         "https://example.com/static/inline.js"}, 1) :
                   run = URLRun("https://example.com/", Force, exists, maps, scripts)
             \/ \E scriptURL \in {"https://example.com/static/app.js",
                                   "https://example.com/static/inline.js",
                                   "https://example.com/static/broken.js",
                                   "https://example.com/static/gone.js",
                                   "https://example.com/",
                                   "example.com/static/app.js"} :
                   run = SingleRun(scriptURL, Force, exists)
    /\ calls = <<>>
    /\ IdleExcept({"run", "disk"})

OverNext ==
    \/ SingleStart
    \/ SingleScript
    \/ SingleRestored
    \/ URLStart
    \/ URLMap
    \/ URLScripts
    \/ URLScript
    \/ URLRestored
    \/ URLExtract
    \/ URLExtracted
    \/ ReturnNoContent
    \/ RestoreEntry
    \/ Return
    \/ VisitDir
    \/ VisitFile
    \/ WalkReturn

SpecOver == OverInit /\ [][OverNext]_vars

----------------------------------------------------------------------------
(* package ui: the Progress bar that runs a bubbletea program in the       *)
(* background. The caller (runURL) and the program share two channels.     *)

\* make(chan int, 100)
UpdatesCap == 100

\* the calls of Increment and SetCurrent a caller makes before Done
MaxCalls == 101

\* the calls among them that may be calls of SetCurrent: the first ones
MaxSetCurrent == 2

\* the totals a bar is made with: none, and a few steps
Totals == {0, 2}

\* p.updates <- n without the default case: the caller waits for room
SendOrWait(ch, n) ==
    [blocked |-> Len(ch) >= UpdatesCap, sent |-> TRUE, ch |-> Append(ch, n)]

\* select { case ch <- n: default: }: the value is buffered when there is
\* room and dropped when there is none; the caller goes on either way
TrySend(ch, n) ==
    IF Len(ch) < UpdatesCap
    THEN [blocked |-> FALSE, sent |-> TRUE, ch |-> Append(ch, n)]
    ELSE [blocked |-> FALSE, sent |-> FALSE, ch |-> ch]

\* m.percent >= 1.0, for a percent kept as the two integers it was computed
\* from, float64(m.current) / float64(m.total) with m.total > 0
AtLeastOne(percent) == percent.num >= percent.den

\* progressModel.Update: the model and the command it returns
Update(m, msg) ==
    CASE msg.type = "KeyMsg" -> [m |-> m, cmd |-> "nil"]
      [] msg.type = "updateMsg" ->
            LET percent == IF m.total > 0 THEN [num |-> msg.n, den |-> m.total]
                           ELSE m.percent
                moved == [m EXCEPT !.current = msg.n, !.percent = percent]
            IN  IF AtLeastOne(percent)
                THEN [m |-> [moved EXCEPT !.done = TRUE], cmd |-> "Quit"]
                ELSE [m |-> moved, cmd |-> "waitForUpdate"]
      [] msg.type = "quitMsg" -> [m |-> [m EXCEPT !.done = TRUE], cmd |-> "Quit"]
      [] msg.type = "FrameMsg" -> [m |-> m, cmd |-> "frame"]
      [] OTHER -> [m |-> m, cmd |-> "nil"]

NoMsg == [type |-> "none", n |-> 0]

\* NewProgress: the channels, the model and the program, which a goroutine
\* is about to run
NewProgress(total) ==
    [mode |-> "bar", pc |-> "calls", total |-> total, current |-> 0,
     updates |-> <<>>, quit |-> FALSE, program |-> "created",
     waiting |-> FALSE, msg |-> NoMsg, frame |-> FALSE,
     m |-> [total |-> total, current |-> 0, percent |-> [num |-> 0, den |-> 1],
            done |-> FALSE],
     called |-> 0, dropped |-> FALSE]

BarIdle == UNCHANGED <<disk, calls, restoreVars, sanVars, scriptVars, walkVars>>

\* Progress.Increment
Increment ==
    /\ run.mode = "bar"
    /\ run.pc = "calls"
    /\ run.called < MaxCalls
    /\ LET try == TrySend(run.updates, run.current + 1)
       IN  /\ ~try.blocked
           /\ run' = [run EXCEPT !.current = @ + 1, !.updates = try.ch,
                                 !.called = @ + 1,
                                 !.dropped = @ \/ ~try.sent]
    /\ BarIdle

\* Progress.SetCurrent
SetCurrent ==
    /\ run.mode = "bar"
    /\ run.pc = "calls"
    /\ run.called < MaxCalls
    /\ run.called < MaxSetCurrent
    /\ \E n \in {0, run.total} :
          LET try == TrySend(run.updates, n)
          IN  /\ ~try.blocked
              /\ run' = [run EXCEPT !.current = n, !.updates = try.ch,
                                    !.called = @ + 1,
                                    !.dropped = @ \/ ~try.sent]
    /\ BarIdle

\* Progress.Done up to time.Sleep
DoneSend ==
    /\ run.mode = "bar"
    /\ run.pc = "calls"
    /\ LET try == TrySend(run.updates, run.total)
       IN  /\ ~try.blocked
           /\ run' = [run EXCEPT !.pc = "sleep", !.current = run.total,
                                 !.updates = try.ch,
                                 !.dropped = @ \/ ~try.sent]
    /\ BarIdle

\* Progress.Done: the sleep is over, close(p.quit)
DoneClose ==
    /\ run.mode = "bar"
    /\ run.pc = "sleep"
    /\ run' = [run EXCEPT !.pc = "wait", !.quit = TRUE]
    /\ BarIdle

\* Progress.Done: p.program.Wait() returns once the program has finished
DoneWait ==
    /\ run.mode = "bar"
    /\ run.pc = "wait"
    /\ run.program = "finished"
    /\ run' = [run EXCEPT !.pc = "returned"]
    /\ BarIdle

\* go func() { p.Run() }(): the program starts and runs the commands of
\* progressModel.Init, of which waitForUpdate is the one that waits
ProgramRun ==
    /\ run.mode = "bar"
    /\ run.program = "created"
    /\ run' = [run EXCEPT !.program = "running", !.waiting = TRUE]
    /\ BarIdle

\* the command of waitForUpdate: a select over the two channels, which
\* takes either when both are ready
waitForUpdate ==
    /\ run.mode = "bar"
    /\ run.waiting
    /\ \/ /\ Len(run.updates) > 0
          /\ run' = [run EXCEPT !.waiting = FALSE,
                                !.msg = [type |-> "updateMsg", n |-> Head(run.updates)],
                                !.updates = Tail(@)]
       \/ /\ run.quit
          /\ run' = [run EXCEPT !.waiting = FALSE, !.msg = [type |-> "quitMsg", n |-> 0]]
    /\ BarIdle

\* the program runs the command progressModel.Update returned
Returned(u) ==
    CASE u.cmd = "Quit" ->
             run' = [run EXCEPT !.m = u.m, !.msg = NoMsg, !.program = "quitting"]
      [] u.cmd = "waitForUpdate" ->
             run' = [run EXCEPT !.m = u.m, !.msg = NoMsg, !.waiting = TRUE,
                                !.frame = TRUE]
      [] u.cmd = "frame" ->
             \E more \in BOOLEAN : run' = [run EXCEPT !.m = u.m, !.frame = more]
      [] OTHER -> run' = [run EXCEPT !.m = u.m]

\* the program hands the message of waitForUpdate to progressModel.Update
ProgramUpdate ==
    /\ run.mode = "bar"
    /\ run.program = "running"
    /\ run.msg.type # "none"
    /\ Returned(Update(run.m, run.msg))
    /\ BarIdle

\* the program hands a frame of the animation, which SetPercent started, to
\* progressModel.Update; the animation goes on or has come to rest
ProgramFrame ==
    /\ run.mode = "bar"
    /\ run.program = "running"
    /\ run.frame
    /\ Returned(Update(run.m, [type |-> "FrameMsg", n |-> 0]))
    /\ BarIdle

\* the program receives the message of tea.Quit: Run returns
ProgramQuit ==
    /\ run.mode = "bar"
    /\ run.program = "quitting"
    /\ run' = [run EXCEPT !.program = "finished"]
    /\ BarIdle

BarInit ==
    /\ \E total \in Totals : run = NewProgress(total)
    /\ IdleExcept({"run"})

BarNext ==
    \/ Increment
    \/ SetCurrent
    \/ DoneSend
    \/ DoneClose
    \/ DoneWait
    \/ ProgramRun
    \/ waitForUpdate
    \/ ProgramUpdate
    \/ ProgramFrame
    \/ ProgramQuit

\* the goroutines of the program and the caller inside Done are scheduled
SpecBar ==
    /\ BarInit
    /\ [][BarNext]_vars
    /\ WF_vars(DoneClose)
    /\ WF_vars(ProgramRun)
    /\ WF_vars(waitForUpdate)
    /\ WF_vars(ProgramUpdate)
    /\ WF_vars(ProgramQuit)

----------------------------------------------------------------------------
(* Properties of RestoreSourcesWithOptions and sanitizePath.               *)

\* min(len(sm.Sources), len(sm.SourcesContent))
MinLen ==
    IF Len(sm.Sources) < Len(sm.SourcesContent)
    THEN Len(sm.Sources) ELSE Len(sm.SourcesContent)

\* the path entry j is restored to and the outcomes a file there can hold:
\* the formatted text of SourcesContent[j], the fetched asset when the entry
\* is a stub, or nothing after a write that stopped short
EntryPath(j) == Join(<<OutputDir, VirtualPath(j)>>)
EntryData(j) ==
    LET text == sm.SourcesContent[j + 1]
    IN  IF text = "" THEN {}
        ELSE IF IsStub(VirtualPath(j), text) THEN {FetchedBytes, ""}
        ELSE {Format(text, EntryPath(j)), ""}

\* C1: the loop handles exactly the indices 0..min(m,k)-1, one counter or
\* error per handled index and none beyond; every file on disk sits at the
\* path derived from some handled Sources[j] and holds what is derived from
\* SourcesContent[j] of the same j.
C1_IndexPairing ==
    /\ i <= MinLen
    /\ pc = "done" => i = MinLen
    /\ result.RestoredCount + result.SkippedCount + Len(result.Errors) = i
    /\ \A p \in DOMAIN disk.files :
          \E j \in 0..(i - 1) : p = EntryPath(j) /\ disk.files[p] \in EntryData(j)

C1_Witness ==
    /\ pc = "done"
    /\ Len(sm.Sources) = 2
    /\ Len(sm.SourcesContent) = 1
    /\ i = 1
    /\ sm.Sources[1] = "webpack:///./src/App.js"
    /\ "restored_sources/src/App.js" \in DOMAIN disk.files
    /\ disk.files["restored_sources/src/App.js"] = "console.log(2)"
    /\ result.RestoredCount = 1

\* C2: the path sanitizePath returns has no element equal to ".." and does
\* not start with a path separator, whatever the input.
C2_NoTraversal ==
    sanPc = "returned" =>
        /\ \A n \in 1..Len(Elems(sanOut)) : Elems(sanOut)[n] # ".."
        /\ ~IsRooted(sanOut)

C2_Witness ==
    /\ sanPc = "returned"
    /\ sanIn = "../../etc/passwd"
    /\ sanOut = "etc/passwd"

\* the resolved form of path p lies below outputDir
Inside(p) ==
    LET resolved == Clean(p)
    IN  /\ HasPrefix(resolved, OutputDir \o Separator)
        /\ Len(resolved) > Len(OutputDir) + 1

\* C3: every file on disk, text entry, fallback-named entry or fetched
\* asset, and every directory made for one, resolves to a path inside
\* outputDir.
C3_InsideOutputDir ==
    /\ \A p \in DOMAIN disk.files : Inside(p)
    /\ \A d \in disk.dirs : d = OutputDir \/ Inside(d)

C3_Witness ==
    /\ i >= 1
    /\ sm.Sources[1] = "webpack:///./src/../../etc/evil.js"
    /\ "restored_sources/src/etc/evil.js" \in DOMAIN disk.files
    /\ disk.files["restored_sources/src/etc/evil.js"] # ""

\* the two-entry source map of the restoration scenario
ScenarioMap ==
    [Sources |-> <<"webpack:///./src/App.js", "webpack:///./src/../../etc/evil.js">>,
     SourcesContent |-> <<"console.log(1)", "console.log(2)">>]

\* C4: restoring ScenarioMap into an empty directory, with no I/O failure,
\* leaves exactly src/App.js holding the first content and src/etc/evil.js
\* holding the second below outputDir, and RestoredCount is 2.
C4_Scenario ==
    (sm = ScenarioMap /\ pc = "done" /\ result.Errors = <<>>) =>
        /\ disk.files = ("restored_sources/src/App.js" :> "console.log(1)"
                         @@ "restored_sources/src/etc/evil.js" :> "console.log(2)")
        /\ result.RestoredCount = 2
        /\ result.SkippedCount = 0
        /\ result.AssetsFetched = 0

C4_Witness ==
    /\ sm = ScenarioMap
    /\ pc = "done"
    /\ result = [EmptyResult EXCEPT !.RestoredCount = 2]
    /\ DOMAIN disk.files =
          {"restored_sources/src/App.js", "restored_sources/src/etc/evil.js"}

\* C5: the step that handles an index whose content is the empty string
\* writes nothing, fetches nothing, records no error, adds one to
\* SkippedCount and leaves the other counters alone.
C5_EmptySkipped ==
    [][(InRange /\ sm.SourcesContent[i + 1] = "") =>
          /\ disk' = disk
          /\ calls' = calls
          /\ result' = [result EXCEPT !.SkippedCount = @ + 1]]_vars

C5_Witness ==
    /\ i = 2
    /\ sm.SourcesContent[1] = ""
    /\ sm.SourcesContent[2] = "console.log(1)"
    /\ result.SkippedCount = 1
    /\ result.RestoredCount = 1
    /\ result.Errors = <<>>
    /\ Cardinality(DOMAIN disk.files) = 1

\* sanitizePath(Sources[j]) is empty or longer than 255
Unsafe(j) ==
    LET sanitized == Sanitized[sm.Sources[j + 1]]
    IN  sanitized = "" \/ Len(sanitized) > 255

\* source_<j>.js directly in outputDir
FallbackPath(j) == OutputDir \o Separator \o "source_" \o Itoa(j) \o ".js"

\* an entry with content whose sanitized path is unsafe is being handled
UnsafeEntry == InRange /\ sm.SourcesContent[i + 1] # "" /\ Unsafe(i)

\* C6: the step that handles an entry whose sanitized path is empty or longer
\* than 255 touches no file but outputDir/source_<i>.js: it writes the
\* formatted content there and counts the entry restored, or an I/O failure
\* of that write is recorded; when the file system does not fail the write
\* no error is recorded, so the path itself never causes an entry in Errors.
C6_Fallback ==
    [][UnsafeEntry =>
          LET fb == FallbackPath(i)
              text == sm.SourcesContent[i + 1]
          IN  /\ DOMAIN disk'.files \subseteq DOMAIN disk.files \cup {fb}
              /\ \A p \in DOMAIN disk.files \ {fb} : disk'.files[p] = disk.files[p]
              /\ disk'.dirs \subseteq disk.dirs \cup {OutputDir}
              /\ calls' = calls
              /\ \/ /\ result' = [result EXCEPT !.RestoredCount = @ + 1]
                    /\ fb \in DOMAIN disk'.files
                    /\ disk'.files[fb] = Format(text, fb)
                 \/ /\ result' = [result EXCEPT !.Errors =
                                     Append(@, RestoreError(sm.Sources[i + 1]))]
                    /\ fb \in DOMAIN disk'.files => disk'.files[fb] = ""
              /\ ioFault' = "none" => result'.Errors = result.Errors]_vars

C6_Witness ==
    /\ i = 2
    /\ sm.Sources = <<"../..", TooLong>>
    /\ result.RestoredCount = 2
    /\ result.Errors = <<>>
    /\ DOMAIN disk.files =
          {"restored_sources/source_0.js", "restored_sources/source_1.js"}
    /\ disk.files["restored_sources/source_1.js"] = "var a = 1"

\* C7: an entry with content is handled as a loader stub (skipped or replaced
\* by the fetched asset, never an error) exactly when the lower-cased
\* extension of its path is a media extension and its content, trimmed of
\* white space, starts with a script starter; otherwise it is handled as
\* text (restored or a write error).  A .svg entry holding
\* export default "static/media/a.svg" is a stub, one holding <svg is not.
C7_StubClassification ==
    [][(InRange /\ sm.SourcesContent[i + 1] # "") =>
          LET trimmed == TrimSpace(sm.SourcesContent[i + 1])
              stub == /\ ToLower(Ext(VirtualPath(i))) \in mediaExtensions
                      /\ \E starter \in jsStarters : HasPrefix(trimmed, starter)
              asStub == /\ result'.Errors = result.Errors
                        /\ \/ result' = [result EXCEPT !.SkippedCount = @ + 1]
                           \/ result'.AssetsFetched = result.AssetsFetched + 1
              asText == /\ result'.SkippedCount = result.SkippedCount
                        /\ result'.AssetsFetched = result.AssetsFetched
                        /\ \/ result'.RestoredCount = result.RestoredCount + 1
                           \/ Len(result'.Errors) = Len(result.Errors) + 1
          IN  /\ stub <=> asStub
              /\ ~stub <=> asText
              /\ IsStub("img/a.svg", StubText)
              /\ ~IsStub("img/a.svg", SvgText)]_vars

C7_Witness ==
    /\ i = 2
    /\ sm.Sources = <<"img/a.svg", "img/a.svg">>
    /\ sm.SourcesContent = <<StubText, SvgText>>
    /\ result.SkippedCount = 1
    /\ result.RestoredCount = 1
    /\ disk.files = ("restored_sources/img/a.svg" :> SvgText)

\* a loader stub is being handled
StubEntry ==
    /\ InRange
    /\ sm.SourcesContent[i + 1] # ""
    /\ IsStub(VirtualPath(i), sm.SourcesContent[i + 1])

\* C8: the step that handles a loader stub records no error and never leaves
\* the stub text on disk; without a fetcher or a base URL, or when no asset
\* path or no URL comes out of the stub, nothing is fetched or written and
\* the entry is counted skipped; whenever the asset is not counted fetched
\* (fetch error, write error) the entry is counted skipped and nothing else.
C8_StubSkipped ==
    [][StubEntry =>
          LET text == sm.SourcesContent[i + 1]
              op == EntryPath(i)
              noCapability == opts.isNil \/ opts.Fetcher = Nil \/ opts.BaseURL = ""
              unresolved ==
                  \/ extractWebpackAssetURL(text) = ""
                  \/ resolveAssetURL(opts.BaseURL, extractWebpackAssetURL(text)).err
              skipped == result' = [result EXCEPT !.SkippedCount = @ + 1]
          IN  /\ result'.Errors = result.Errors
              /\ op \in DOMAIN disk'.files => disk'.files[op] # text
              /\ \A p \in DOMAIN disk'.files \ {op} :
                    p \in DOMAIN disk.files /\ disk'.files[p] = disk.files[p]
              /\ (noCapability \/ unresolved) =>
                    disk' = disk /\ calls' = calls /\ skipped
              /\ result'.AssetsFetched = result.AssetsFetched => skipped]_vars

C8_Witness ==
    /\ i = 2
    /\ sm.Sources = <<"img/a.svg", "img/a.svg">>
    /\ sm.SourcesContent = <<StubText, " var a=1">>
    /\ opts.BaseURL = "https://example.com/app/"
    /\ opts.Fetcher = Fetcher
    /\ result = [EmptyResult EXCEPT !.SkippedCount = 2]
    /\ Len(calls) = 1
    /\ disk.files = ("restored_sources/img/a.svg" :> "")

\* C9: a step that counts a loader stub as fetched had a fetcher and a base
\* URL, asked the fetcher for the asset URL resolved against the base, wrote
\* exactly the fetched bytes at the entry's path and nothing else, and added
\* one to RestoredCount and to AssetsFetched only; a step that fetched and
\* changed the disk to hold the fetched bytes there is counted that way.
C9_StubFetched ==
    [][StubEntry =>
          LET op == EntryPath(i)
              counted == result'.AssetsFetched # result.AssetsFetched
              written == /\ calls' # calls
                         /\ disk'.files # disk.files
                         /\ op \in DOMAIN disk'.files
                         /\ disk'.files[op] = FetchedBytes
          IN  /\ counted =>
                    /\ ~opts.isNil /\ opts.Fetcher # Nil /\ opts.BaseURL # ""
                    /\ calls' = Append(calls, "https://example.com/static/media/a.svg")
                    /\ disk'.files = Put(disk.files, op, FetchedBytes)
                    /\ result' = [result EXCEPT !.RestoredCount = @ + 1,
                                                !.AssetsFetched = @ + 1]
              /\ written => counted]_vars

C9_Witness ==
    /\ i = 1
    /\ sm.Sources[1] = "img/a.svg"
    /\ sm.SourcesContent[1] = StubText
    /\ result = [EmptyResult EXCEPT !.RestoredCount = 1, !.AssetsFetched = 1]
    /\ calls = <<"https://example.com/static/media/a.svg">>
    /\ disk.files = ("restored_sources/img/a.svg" :> FetchedBytes)

\* a text entry (content, not a stub) is being handled
TextEntry ==
    /\ InRange
    /\ sm.SourcesContent[i + 1] # ""
    /\ ~IsStub(VirtualPath(i), sm.SourcesContent[i + 1])

\* C10: a step whose write of a text entry fails appends one error naming
\* the entry's source to Errors, changes no counter, and leaves the loop at
\* the next index, and only such a step changes Errors; the loop returns
\* only after index min(m,k)-1; and a text entry handled after an earlier
\* failure is written and counted, or fails, as it is with no failure
\* before it.
C10_WriteFailureContinues ==
    /\ [][(InRange /\ (result'.Errors # result.Errors
                       \/ (TextEntry /\ ioFault' # "none"))) =>
            /\ TextEntry
            /\ ioFault' # "none"
            /\ result' = [result EXCEPT !.Errors =
                             Append(@, RestoreError(sm.Sources[i + 1]))]
            /\ pc' = "loop"
            /\ i' = i + 1
            /\ sm' = sm /\ opts' = opts]_vars
    /\ [][(TextEntry /\ result'.Errors = result.Errors) =>
            /\ result' = [result EXCEPT !.RestoredCount = @ + 1]
            /\ disk'.files = Put(disk.files, EntryPath(i),
                                 Format(sm.SourcesContent[i + 1], EntryPath(i)))
            /\ i' = i + 1]_vars
    /\ [](result.Errors # <<>> /\ i < MinLen => InRange)
    /\ [](pc = "done" => i = MinLen)

C10_Witness ==
    /\ pc = "done"
    /\ i = 2
    /\ sm = ScenarioMap
    /\ result.Errors = <<RestoreError("webpack:///./src/App.js")>>
    /\ result.RestoredCount = 1
    /\ disk.files = ("restored_sources/src/etc/evil.js" :> "console.log(2)")

\* C11: a text entry whose path already holds an earlier entry's file is
\* written over it when the file system does not fail: no error, one more
\* restored, the file holds this entry's formatted content and no other
\* file changes; so after a run without errors on two text entries of one
\* path both are counted and the file holds the later one's content.
C11_LastWriteWins ==
    /\ [][(TextEntry /\ EntryPath(i) \in DOMAIN disk.files /\ ioFault' = "none") =>
            /\ result' = [result EXCEPT !.RestoredCount = @ + 1]
            /\ DOMAIN disk'.files = DOMAIN disk.files
            /\ disk'.files[EntryPath(i)] =
                  Format(sm.SourcesContent[i + 1], EntryPath(i))
            /\ \A p \in DOMAIN disk.files \ {EntryPath(i)} :
                  disk'.files[p] = disk.files[p]]_vars
    /\ []((/\ pc = "done"
           /\ i = 2
           /\ sm.SourcesContent[1] # ""
           /\ sm.SourcesContent[2] # ""
           /\ result.Errors = <<>>) =>
             /\ result.RestoredCount = 2
             /\ disk.files = ("restored_sources/src/App.js"
                                :> Format(sm.SourcesContent[2], "src/App.js")))

C11_Witness ==
    /\ pc = "done"
    /\ sm.Sources = <<"webpack:///./src/App.js", "src//App.js">>
    /\ sm.SourcesContent = <<"console.log(1)", "console.log(2)">>
    /\ result = [EmptyResult EXCEPT !.RestoredCount = 2]
    /\ disk.files = ("restored_sources/src/App.js" :> "console.log(2)")

\* the sourcemaps encoded in InlineLines
EncodedMaps ==
    <<[Sources |-> <<"a.js">>, SourcesContent |-> <<"x=1">>],
      [Sources |-> <<"webpack:///./src/App.js", "b \"q\".js">>,
       SourcesContent |-> <<"console.log(1)\n", "">>],
      [Sources |-> <<"x.svg">>, SourcesContent |-> <<"<svg/>">>],
      [Sources |-> <<>>, SourcesContent |-> <<>>]>>

\* C13: for a script that ends with an inline base64 JSON sourcemap comment
\* (whatever the lines before it are), HasInlineSourceMap returns true and
\* ExtractInlineSourceMap returns, without error, a SourceMap with the
\* Sources and SourcesContent that were encoded.
C13_InlineRoundTrip ==
    \A k \in DOMAIN InlineLines :
        script.tail = InlineLines[k] =>
            /\ "HasInlineSourceMap" \in scriptDone => hasInline
            /\ "ExtractInlineSourceMap" \in scriptDone =>
                    inlineMap = [isNil |-> FALSE, sm |-> EncodedMaps[k], err |-> ""]

C13_Witness ==
    /\ script.tail = InlineLines[2]
    /\ script.head = "//# sourceMappingURL=app.js.map"
    /\ scriptDone = {"HasInlineSourceMap", "ExtractInlineSourceMap"}
    /\ hasInline
    /\ inlineMap.sm.SourcesContent = <<"console.log(1)\n", "">>

\* what the reference comment of a line of ScriptLines points to: the URL of
\* an external reference, "data:" for a data: URI, "" when the line has no
\* reference comment
ReferenceOf(line) ==
    CASE line = "//# sourceMappingURL=app.js.map" -> "app.js.map"
      [] line = "//@ sourceMappingURL = old.map\r" -> "old.map"
      [] HasPrefix(line, "//# sourceMappingURL=data:") -> "data:"
      [] HasPrefix(line, "//# sourceMappingURL = data:") -> "data:"
      [] OTHER -> ""

\* the first line is among the last ten of the script
HeadInWindow == script.fill + 2 <= 10

\* C14: ExtractSourceMappingURL returns what the first reference comment met
\* on the way up from the last line through the last ten lines points to:
\* its URL, "" when it is a data: URI, "" when there is none in the ten
\* lines, a reference further up notwithstanding.
C14_TenLineWindow ==
    "ExtractSourceMappingURL" \in scriptDone =>
        LET met == IF ReferenceOf(script.tail) # "" THEN ReferenceOf(script.tail)
                   ELSE IF HeadInWindow THEN ReferenceOf(script.head)
                   ELSE ""
        IN  mappingURL = IF met = "data:" THEN "" ELSE met

C14_Witness ==
    /\ "ExtractSourceMappingURL" \in scriptDone
    /\ script.head = "//# sourceMappingURL=app.js.map"
    /\ ~HeadInWindow
    /\ script.tail = "f()"
    /\ mappingURL = ""

\* the line carries an inline base64 JSON sourcemap reference
IsInlineReference(line) ==
    line \in BrokenLines \/ \E k \in DOMAIN InlineLines : line = InlineLines[k]

\* C15: ExtractInlineSourceMap returns nil and no error when none of the
\* last ten lines carries an inline base64 JSON reference; when it returns
\* an error, the reference it met first is one whose payload is not base64
\* or not the JSON of a SourceMap, and it returns no SourceMap with it.
C15_InlineNilOrError ==
    "ExtractInlineSourceMap" \in scriptDone =>
        LET met == IF IsInlineReference(script.tail) THEN script.tail
                   ELSE IF HeadInWindow /\ IsInlineReference(script.head) THEN script.head
                   ELSE ""
        IN  /\ met = "" => inlineMap.isNil /\ inlineMap.err = ""
            /\ inlineMap.err # "" => met \in BrokenLines /\ inlineMap.isNil

C15_Witness ==
    /\ "ExtractInlineSourceMap" \in scriptDone
    /\ script.head = InlineLines[1]
    /\ ~HeadInWindow
    /\ script.tail = "//# sourceMappingURL=app.js.map"
    /\ inlineMap.isNil
    /\ inlineMap.err = ""

\* the output name, without extension, of each file of ExportPaths
CleanName ==
    [file \in ExportPaths |->
        CASE file = "restored_sources/.env" -> "asset"
          [] file = "restored_sources/img/logo.png.js" -> "logo"
          [] file = "restored_sources/src/a.js" -> "a"]

\* every asset extracted from an export of a MIME type of the table was
\* written as <output directory>/<name>.<the table's extension>
ExtensionsAre(table) ==
    \A k \in 1..Len(wReturns), mime \in DOMAIN table :
        (/\ wReturns[k].path # ""
         /\ Contains(disk.files[wReturns[k].file], "\"data:" \o mime \o ";base64,")) =>
            wReturns[k].path =
                "extracted_assets/" \o CleanName[wReturns[k].file] \o "." \o table[mime]

\* C16 as stated: image/svg+xml gives svg, application/x-custom gives
\* custom, a MIME type without a slash gives bin.
C16_Original ==
    ExtensionsAre("image/svg+xml" :> "svg" @@ "application/x-custom" :> "custom"
                    @@ "weird" :> "bin")

\* C16: extensionFromMIME gives the table's extension for a MIME type of the
\* table (image/svg+xml: svg, image/png: png); for any other type with one
\* slash the subtype up to its first '+' (application/vnd.api+json: vnd.api),
\* which for application/x-custom is the whole subtype x-custom; and bin for
\* a type without a slash.
C16_ExtensionChain ==
    ExtensionsAre("image/svg+xml" :> "svg" @@ "image/png" :> "png"
                    @@ "application/x-custom" :> "x-custom"
                    @@ "application/vnd.api+json" :> "vnd.api" @@ "weird" :> "bin")

C16_Witness ==
    /\ Len(wReturns) = 2
    /\ wReturns[1] = [file |-> "restored_sources/.env",
                      path |-> "extracted_assets/asset.x-custom", err |-> ""]
    /\ wReturns[2] = [file |-> "restored_sources/src/a.js",
                      path |-> "extracted_assets/a.bin", err |-> ""]
    /\ disk.files["extracted_assets/asset.x-custom"] = "ABC"

\* contents of ExportContents that are, once trimmed, one export default or
\* module.exports statement whose value is a data: URI with a base64 payload
SingleDataExports ==
    {Export("image/png", "iVBORw=="),
     "\n" \o Export("image/svg+xml", "PHN2Zy8+") \o ";\n",
     Export("application/x-custom", "QUJD"),
     Export("application/vnd.api+json", "e30="),
     Export("weird", "QUJD"),
     "module.exports = \"data:image/png;base64,iVBORw==\""}

\* C17: ExtractFromFile, given a file it can read, returns an output path
\* (when the file system lets it write) if the trimmed content is one
\* export default or module.exports statement with a data: URI literal, and
\* for every other content whose payload is base64 returns the empty path
\* and no error.
C17_ExtractsExactly ==
    \A k \in 1..Len(wReturns) :
        LET ret == wReturns[k]
            content == disk.files[ret.file]
        IN  ret.err \in {"", "failed to decode base64"} =>
                IF content \in SingleDataExports
                THEN ret.path # "" /\ ret.err = ""
                ELSE content # Export("image/png", "iVBOR") =>
                        ret.path = "" /\ ret.err = ""

\* the outcomes of an entry whose sourcemap could not be read or parsed
DecodeFailures ==
    {"failed to parse", "failed to extract inline sourcemap", "failed to parse sourcemap"}

\* what the run has seen at the target or in the list at
SeenAt(at) == SelectSeq(run.seen, LAMBDA s : s.t = at)

NamesOf(seen) == [k \in 1..Len(seen) |-> seen[k].name]

\* the names in downloaded_site of the target d, as os.ReadDir orders them
EntryNames(d) ==
    LET Names(items) == [k \in 1..Len(items) |-> Base(items[k].path)]
    IN  Names(SelectSeq(WalkDir(d, "downloaded_site"),
                        LAMBDA it : Dir(it.path) = "downloaded_site"))

\* C18: a sourcemap that cannot be read or parsed fails alone. In RunLocal
\* and in RunURL each decode failure is in the error list of the run, in
\* the order of the failures; a run in which a sourcemap failed to decode
\* returns a result, not an error; and a run that returns a result has
\* dealt with every target, and with every entry of every list it read,
\* in order: the entries of downloaded_site of each target, or
\* discovered.SourceMaps and then discovered.Scripts.
C18_DecodeFailureIsLocal ==
    run.mode \in {"local", "url"} =>
        LET failed == SelectSeq(run.seen, LAMBDA s : s.outcome \in DecodeFailures)
            errors == SelectSeq(run.result.Errors, LAMBDA err : err.msg \in DecodeFailures)
        IN  /\ errors = [k \in 1..Len(failed) |-> RunError(failed[k].outcome, failed[k].name)]
            /\ run.pc = "returned" /\ Len(failed) > 0 => run.ret = "result"
            /\ run.pc = "returned" /\ run.ret = "result" /\ run.mode = "local" =>
                  /\ run.result.TargetsProcessed = Len(run.targets)
                  /\ \A t \in 1..Len(run.targets) :
                        \/ NamesOf(SeenAt(t)) = EntryNames(run.targets[t])
                        \/ /\ Len(SeenAt(t)) = 1
                           /\ SeenAt(t)[1].outcome = "failed to read download directory"
            /\ run.pc = "returned" /\ run.ret = "result" /\ run.mode = "url" =>
                  /\ NamesOf(SeenAt("maps")) = run.maps
                  /\ NamesOf(SeenAt("scripts")) = run.scripts

\* RunLocal has returned from two targets: in the first app.js.map did not
\* parse and lib.map after it was restored, and the second was read too
C18_Witness ==
    /\ run.mode = "local"
    /\ run.pc = "returned"
    /\ run.ret = "result"
    /\ Len(run.targets) = 2
    /\ run.seen = <<[t |-> 1, name |-> "app.js.map", outcome |-> "failed to parse"],
                    [t |-> 1, name |-> "lib.map", outcome |-> "decoded"]>>
    /\ run.result = [TargetsProcessed |-> 2, MapsProcessed |-> 1, SourcesRestored |-> 1,
                     AssetsExtracted |-> 0,
                     Errors |-> <<RunError("failed to parse", "app.js.map")>>]

\* C19: ExtractFromDirectory hands every regular file to ExtractFromFile
\* once, whatever the earlier files returned: ExtractedCount is the number
\* of non-empty paths returned so far, the errors returned so far are in
\* Errors in the order of the walk, and when the walk ends every regular
\* file under inputDir whose directory could be read has been handed over.
C19_WalkContinues ==
    LET Count(P(_)) == Cardinality({k \in 1..Len(wReturns) : P(wReturns[k])})
        IsFileError(e) == ~HasPrefix(e, "walk error at ")
        IsFile(it) == it.kind = "file"
        files == SelectSeq(walk, IsFile)
    IN  wPc \in {"extract", "done"} =>
          /\ wResult.ExtractedCount = Count(LAMBDA ret : ret.path # "")
          /\ Len(SelectSeq(wResult.Errors, IsFileError)) = Count(LAMBDA ret : ret.err # "")
          /\ \A k \in 1..Len(wReturns) :
                /\ wReturns[k].file = files[k].path
                /\ wReturns[k].err # "" => wReturns[k].err \in
                        {wResult.Errors[n] : n \in 1..Len(wResult.Errors)}
          /\ wPc = "done" =>
                /\ Len(wReturns) = Len(files)
                /\ SelectSeq(wResult.Errors, LAMBDA e : ~IsFileError(e)) = <<>> =>
                      {files[k].path : k \in 1..Len(files)} =
                          {p \in DOMAIN disk.files : HasPrefix(p, "restored_sources/")}

C19_Witness ==
    /\ wPc = "done"
    /\ Len(wReturns) = 2
    /\ wReturns[1].err = "failed to decode base64"
    /\ wReturns[2].path = "extracted_assets/a.png"
    /\ wResult = [ExtractedCount |-> 1, Errors |-> <<"failed to decode base64">>]

----------------------------------------------------------------------------
(* The two stub resolutions side by side (SpecPair).                       *)

\* both calls have returned and the walk, if it came to the file, read it
PairDone ==
    /\ pc = "done"
    /\ wPc = "done"
    /\ \A k \in 1..Len(wReturns) : wReturns[k].err # "failed to read file"

\* processWebpackAsset asked client.GetBytes for the asset
WalkTried ==
    \E k \in 1..Len(wReturns) :
        \/ wReturns[k].path # ""
        \/ wReturns[k].err \in {"failed to download asset", "failed to write asset"}

\* tryFetchRealAsset asked opts.Fetcher.GetBytes for the asset
RestorerTried == Len(calls) > (IF WalkTried THEN 1 ELSE 0)

\* C21: for one path and content, with one base URL and one client, the
\* walk variant (processWebpackAsset) attempts a fetch exactly when the
\* Restorer (tryFetchRealAsset) attempts one, and both ask for the same URL.
C21_SameStubTest ==
    (PairDone /\ Len(wReturns) = 1) =>
        /\ WalkTried <=> RestorerTried
        /\ \A a \in 1..Len(calls), b \in 1..Len(calls) : calls[a] = calls[b]

----------------------------------------------------------------------------
(* The order of the restore loop.                                          *)

\* the errors of the entries ks (Go indices, increasing), in that order
ErrorsOf(ks) == [k \in 1..Len(ks) |-> RestoreError(Source(ks[k]))]

\* the strictly increasing sequences of Go indices below n
RECURSIVE Increasing(_)
Increasing(n) ==
    IF n = 0 THEN {<<>>}
    ELSE Increasing(n - 1) \cup {Append(ks, n - 1) : ks \in Increasing(n - 1)}

\* C22: RestoreSourcesWithOptions handles the entries one by one in
\* increasing index order (each step handles entry i, appends at most the
\* error of entry i at the end of Errors and moves to i + 1), so Errors is at
\* all times the list of the errors of some of the entries handled so far,
\* in increasing order of their index, each entry at most once.
C22_ErrorsInIndexOrder ==
    /\ [](pc \in {"loop", "done"} =>
            \E ks \in Increasing(i) : result.Errors = ErrorsOf(ks))
    /\ [][pc = "loop" /\ i' # i =>
            /\ i' = i + 1
            /\ \/ result'.Errors = result.Errors
               \/ result'.Errors = Append(result.Errors, RestoreError(sm.Sources[i + 1]))]_vars

\* both entries failed: the error of entry 0 comes before that of entry 1
C22_Witness ==
    /\ pc = "done"
    /\ sm.Sources = <<"webpack:///./src/App.js", "../..">>
    /\ result.Errors = <<RestoreError("webpack:///./src/App.js"), RestoreError("../..")>>

----------------------------------------------------------------------------
(* RunURL: sourcemaps are handled once.                                    *)

\* a sourcemap was handed to processSourceMap or, inline, to RestoreSources
Handled == {"decoded", "failed to download sourcemap", "failed to parse sourcemap"}

\* the key under which the sourcemap of a script is marked: the script's URL
\* with ":inline" for an inline sourcemap that decodes, else the URL its
\* reference resolves to ("" for a script without one)
KeyOfScript ==
    [u \in DOMAIN Served |->
        IF HasInlineSourceMap(Served[u]) /\ ~ExtractInlineSourceMap(Served[u]).isNil
        THEN u \o ":inline"
        ELSE resolveURL(u, ExtractSourceMappingURL(Served[u])).url]

\* the key of an element of discovered.SourceMaps or discovered.Scripts
KeyOf(s) == IF s.t = "maps" THEN s.name ELSE KeyOfScript[s.name]

\* C23: in a run of RunURL every sourcemap key (the resolved URL of a
\* sourcemap, or the URL of a script with ":inline") is handled (downloaded
\* by processSourceMap, or restored from the inline text) at most once,
\* whether it came from discovered.SourceMaps or from a script: the keys
\* handled so far are pairwise different and are exactly processedMaps, an
\* element skipped as a duplicate has the key of an earlier handled one,
\* RestoreSources starts only for an element handled in that step, and
\* MapsDiscovered is the number of elements handled.
C23_MapsHandledOnce ==
    /\ [](run.mode = "url" =>
            LET handled == SelectSeq(run.seen, LAMBDA s : s.outcome \in Handled)
            IN  /\ \A a \in 1..Len(handled), b \in 1..Len(handled) :
                      KeyOf(handled[a]) = KeyOf(handled[b]) => a = b
                /\ run.processedMaps = {KeyOf(handled[a]) : a \in 1..Len(handled)}
                /\ \A b \in 1..Len(run.seen) :
                      run.seen[b].outcome = "duplicate" =>
                         \E a \in 1..(b - 1) :
                            /\ run.seen[a].outcome \in Handled
                            /\ KeyOf(run.seen[a]) = KeyOf(run.seen[b])
                /\ run.pc = "returned" /\ run.ret = "result" =>
                      run.result.MapsDiscovered = Len(handled))
    /\ [][(run.mode = "url" /\ run'.pc = "restore" /\ run.pc # "restore") =>
            /\ Len(run'.seen) = Len(run.seen) + 1
            /\ run'.seen[Len(run'.seen)].outcome = "decoded"
            /\ KeyOf(run'.seen[Len(run'.seen)]) \notin run.processedMaps]_vars

\* app.js.map was discovered by the browser and again through the reference
\* in app.js: it was restored once
C23_Witness ==
    /\ run.mode = "url"
    /\ run.pc = "returned"
    /\ run.seen = <<[t |-> "maps", name |-> "https://example.com/static/app.js.map",
                     outcome |-> "decoded"],
                    [t |-> "scripts", name |-> "https://example.com/static/app.js",
                     outcome |-> "duplicate"]>>
    /\ run.processedMaps = {"https://example.com/static/app.js.map"}
    /\ run.result.MapsDiscovered = 1
    /\ run.result.SourcesRestored = 1

----------------------------------------------------------------------------
(* RunURL and RunSingle over an output directory that exists.              *)

\* the file the run downloads its script to
ScriptPath == Join(<<downloadedSite, filenameFromURL(run.scriptURL)>>)

\* C24: when the output directory of the domain exists and Force is not set,
\* RunURL and RunSingle return an error in their first step, which leaves
\* the file system as it is and starts nothing (no directory made, nothing
\* downloaded, no discovery, no restore, no walk), and they do nothing
\* after it; so a run that gets past that step over a directory that exists
\* has Force set, and it writes over what is there: the script RunSingle
\* downloaded and the source it restored hold the new text.
C24_ExistingNeedsForce ==
    /\ [](run.mode \in {"url", "single"} /\ run.exists =>
            /\ ~run.Force =>
                  /\ run.pc \in {"start", "returned"}
                  /\ run.pc = "returned" => run.ret = "error"
                  /\ disk \in {EmptyDisk, Earlier}
                  /\ pc = "idle" /\ wPc = "idle" /\ calls = <<>>
                  /\ run.mode = "url" => run.seen = <<>> /\ run.processedMaps = {}
            /\ (run.pc \notin {"start", "returned"} \/ run.ret = "result") => run.Force
            /\ (run.mode = "single" /\ run.ret = "result") =>
                  /\ disk.files[ScriptPath] = Served[run.scriptURL]
                  /\ run.result.SourcesRestored = 1 =>
                        disk.files["restored_sources/src/App.js"] = "console.log(1)")
    /\ [][(run.mode \in {"url", "single"} /\ run.pc = "start"
               /\ run.exists /\ ~run.Force) =>
            /\ run'.pc = "returned"
            /\ run'.ret = "error"
            /\ disk' = disk
            /\ UNCHANGED <<calls, restoreVars, walkVars>>]_vars

\* RunSingle without Force over the output of an earlier run: refused, and
\* the earlier output is as it was
C24_Witness ==
    /\ run.mode = "single"
    /\ run.scriptURL = "https://example.com/static/app.js"
    /\ run.exists /\ ~run.Force
    /\ run.pc = "returned"
    /\ run.err = "output directory already exists"
    /\ disk = Earlier

----------------------------------------------------------------------------
(* The counters of RestoreResult.                                          *)

\* C25: while RestoreSourcesWithOptions runs and when it has returned,
\* RestoredCount + SkippedCount + len(Errors) is the number of entries
\* handled so far and AssetsFetched <= RestoredCount; each step of the loop
\* adds one to exactly one of the three; on return the number of entries
\* handled is min(len(Sources), len(SourcesContent)).
C25_EveryEntryCounted ==
    /\ [](pc \in {"loop", "done"} =>
            /\ result.RestoredCount + result.SkippedCount + Len(result.Errors) = i
            /\ result.AssetsFetched <= result.RestoredCount
            /\ pc = "done" =>
                  i = (IF Len(sm.Sources) < Len(sm.SourcesContent)
                       THEN Len(sm.Sources) ELSE Len(sm.SourcesContent)))
    /\ [][pc = "loop" /\ i' = i + 1 =>
            \/ /\ result'.RestoredCount = result.RestoredCount + 1
               /\ result'.SkippedCount = result.SkippedCount
               /\ result'.Errors = result.Errors
            \/ /\ result'.RestoredCount = result.RestoredCount
               /\ result'.SkippedCount = result.SkippedCount + 1
               /\ result'.Errors = result.Errors
            \/ /\ result'.RestoredCount = result.RestoredCount
               /\ result'.SkippedCount = result.SkippedCount
               /\ Len(result'.Errors) = Len(result.Errors) + 1]_vars

\* a bundle of two entries: an asset that was fetched and a text whose
\* write failed
C25_Witness ==
    /\ pc = "done"
    /\ i = 2
    /\ Len(sm.Sources) = 2
    /\ result.RestoredCount = 1
    /\ result.AssetsFetched = 1
    /\ result.SkippedCount = 0
    /\ Len(result.Errors) = 1

----------------------------------------------------------------------------
(* sanitizePath applied to its own output.                                 *)

\* C26: sanitizePath is idempotent, sanitizePath(sanitizePath(s)) =
\* sanitizePath(s), and the path it returns is empty or made of segments
\* that are not empty, hold no illegal character and no space, do not end
\* in a dot and do not start with two dots.
C26_Idempotent ==
    sanPc = "returned" =>
        /\ sanitizePath(sanOut) = sanOut
        /\ sanOut # "" =>
              \A n \in 1..Len(Split(sanOut, Separator)) :
                 LET segment == Split(sanOut, Separator)[n]
                 IN  /\ segment # ""
                     /\ \A k \in 1..Len(segment) :
                           Char(segment, k) \notin IllegalChars \cup {" "}
                     /\ Char(segment, Len(segment)) # "."
                     /\ ~HasPrefix(segment, "..")

\* three leading dots, a space and a trailing colon and dot
C26_Witness ==
    /\ sanPc = "returned"
    /\ sanIn = "...a"
    /\ sanOut = ".a"
    /\ sanitizePath(". .:") = "._"

----------------------------------------------------------------------------
(* HasInlineSourceMap as the test before ExtractInlineSourceMap.           *)

\* C27: whenever ExtractInlineSourceMap returns a SourceMap or an error for
\* a script, HasInlineSourceMap returns true for it: a caller that extracts
\* only when HasInlineSourceMap is true misses no inline sourcemap and no
\* error.
C27_ProbeIsSound ==
    {"HasInlineSourceMap", "ExtractInlineSourceMap"} \subseteq scriptDone =>
        ((~inlineMap.isNil \/ inlineMap.err # "") => hasInline)

\* the inline sourcemap stands on the first line of a short script
C27_Witness ==
    /\ {"HasInlineSourceMap", "ExtractInlineSourceMap"} \subseteq scriptDone
    /\ script.head = InlineLines[1]
    /\ script.fill = 3
    /\ script.tail = "f()"
    /\ ~inlineMap.isNil
    /\ inlineMap.sm.Sources = <<"a.js">>
    /\ hasInline

----------------------------------------------------------------------------
(* The calls of opts.Fetcher.GetBytes.                                     *)

\* C28: a step of the restore loop calls GetBytes at most once, and only
\* for an entry that has content, is classified as a loader stub and holds
\* an asset path, with opts, a fetcher and a base URL given; so there are
\* never more calls than entries handled, nor more assets counted fetched
\* than calls; without opts, a fetcher or a base URL there is no call at
\* all and AssetsFetched stays 0.
C28_FetchOncePerStub ==
    /\ [](pc \in {"loop", "done"} =>
            /\ Len(calls) <= i
            /\ result.AssetsFetched <= Len(calls)
            /\ (opts.isNil \/ opts.Fetcher = Nil \/ opts.BaseURL = "") =>
                  calls = <<>> /\ result.AssetsFetched = 0)
    /\ [][pc = "loop" /\ calls' # calls =>
            /\ Len(calls') = Len(calls) + 1
            /\ SubSeq(calls', 1, Len(calls)) = calls
            /\ i' = i + 1
            /\ sm.SourcesContent[i + 1] # ""
            /\ IsStub(VirtualPath(i), sm.SourcesContent[i + 1])
            /\ extractWebpackAssetURL(sm.SourcesContent[i + 1]) # ""
            /\ ~opts.isNil /\ opts.Fetcher # Nil /\ opts.BaseURL # ""]_vars

\* two stubs: one names its asset and is fetched, the other names none
C28_Witness ==
    /\ pc = "done"
    /\ sm.Sources = <<"img/a.svg", "img/a.svg">>
    /\ sm.SourcesContent = <<StubText, " var a=1">>
    /\ calls = <<"https://example.com/static/media/a.svg">>
    /\ result = [RestoredCount |-> 1, SkippedCount |-> 1, AssetsFetched |-> 1,
                 Errors |-> <<>>]

\* C29: in one RunLocal pass over a downloaded_site directory the inline
\* sourcemap of a script x.js is decoded and restored once: when x.js was
\* decoded, the pass does not decode and restore x.js.inline.map as well.
C29_InlineMapOnce ==
    (run.mode = "local" /\ run.pc = "returned") =>
        ~ \E a, b \in 1..Len(run.seen) :
              /\ run.seen[a].t = run.seen[b].t
              /\ run.seen[a].outcome = "decoded"
              /\ run.seen[b].outcome = "decoded"
              /\ run.seen[b].name = run.seen[a].name \o ".inline.map"

\* Progress.Done has been entered
DoneCalled == run.mode = "bar" /\ run.pc \in {"sleep", "wait", "returned"}

\* a step of Increment, SetCurrent or the send of Done
CallerStep ==
    /\ run.mode = "bar"
    /\ run.pc = "calls"
    /\ run'.called # run.called \/ run'.pc = "sleep"

\* C30: an update never makes the caller wait: Increment, SetCurrent and
\* Done can always take their step, a step that finds the 100 slots of the
\* buffer taken leaves the buffer as it was and one that finds room appends
\* its value; the model is done only after an update of 100% or more or
\* after the quit channel was closed; and once Done has been entered the
\* model eventually is done.
C30_NeverBlocksAndQuits ==
    /\ [](run.mode = "bar" =>
             /\ Len(run.updates) <= UpdatesCap
             /\ (run.pc = "calls" /\ run.called < MaxCalls) => ENABLED Increment
             /\ (run.pc = "calls" /\ run.called < MaxCalls
                     /\ run.called < MaxSetCurrent) => ENABLED SetCurrent
             /\ run.pc = "calls" => ENABLED DoneSend
             /\ run.m.done =>
                    \/ run.m.total > 0 /\ run.m.current >= run.m.total
                    \/ run.quit)
    /\ [][CallerStep =>
             IF Len(run.updates) = UpdatesCap
             THEN run'.updates = run.updates /\ run'.dropped
             ELSE run'.updates = Append(run.updates, run'.current)]_vars
    /\ (DoneCalled ~> run.m.done)

\* Done has returned for a bar that lost an update to a full buffer and
\* whose model is done
C30_Witness ==
    /\ run.mode = "bar"
    /\ run.pc = "returned"
    /\ run.dropped
    /\ Len(run.updates) = UpdatesCap
    /\ run.m.done

====
